---------------------------- MODULE Spec2Model ----------------------------
(* A model of the PGN move layer of rust-chess: the character vocabulary   *)
(* (chess_common.rs), the move builder, the move formatter and the phased  *)
(* move parser ChessMove::from (chess_pgn.rs).                             *)
(*                                                                         *)
(* A string is a sequence of one-character strings.  Option values use the *)
(* string "None" for vocabulary items; an Option<ChessCoordinate> is a     *)
(* record with a `some` flag so that None and Some(empty) stay distinct.   *)
EXTENDS Naturals, Sequences, FiniteSets, TLC

VARIABLES
    pc,         \* position of the program:
                \* builder/built/start/loop/build/done, or list
    builder,    \* the ChessMoveBuilder the caller is filling
    built,      \* the Result of builder.build()
    input,      \* pgn_move_string, the argument of ChessMove::from
    scan,       \* the locals of ChessMove::from
    result,     \* the Result returned by ChessMove::from
    moves,      \* MoveList.moves, the Vec<PgnMove> of a game
    op,         \* the last call made on the list: new/push_move/pop_move
    new_move,   \* the argument of the last push_move
    ret_move,   \* the Option<ChessMove> returned by the last pop_move
    tags,       \* the seven tag values of a PgnGame
    rendered,   \* the text returned by to_string of the game, when that was
                \* the last call made on it
    codec,      \* a character or vocabulary value and what the decoders
                \* and encoders of chess_common.rs have returned for it
    pgn_move,   \* a PgnMove used on its own: white_move and black_move
    pair_op,    \* the last call made on that PgnMove and what it returned
    round_in,   \* the text handed to PgnRound::from
    round_ret,  \* the Result returned by PgnRound::from
    registered_cmds, \* the registered commands of a CommandParser
    vec_input,  \* the words handed to CommandParser::parse_vec
    parsed      \* the Result returned by CommandParser::parse_vec

moveVars == <<pc, builder, built, input, scan, result>>

listVars == <<moves, op, new_move, ret_move>>

gameVars == <<tags, rendered>>

pairVars == <<pgn_move, pair_op>>

roundVars == <<round_in, round_ret>>

cmdVars == <<registered_cmds, vec_input, parsed>>

restVars == <<pairVars, roundVars, cmdVars>>

vars == <<pc, builder, built, input, scan, result,
          moves, op, new_move, ret_move, tags, rendered, codec,
          pgn_move, pair_op, round_in, round_ret,
          registered_cmds, vec_input, parsed>>

---------------------------------------------------------------------------
(* Bounds of the model.                                                    *)

\* Most half-moves a list holds.
MaxHalfMoves == 4

\* Most half-moves of one kind a rendered game starts with, and most
\* further half-moves of any kind that follow them.
MaxFill == 22

MaxTail == 2

\* Most commands registered with a CommandParser, and most arguments that
\* follow the command word.
MaxCmds == 2

MaxArgs == 3

\* Longest input string drawn exhaustively from Alphabet.
MaxLen == 3

\* Characters the exhaustive inputs are made of.  NonAsciiChar stands for
\* one character outside ASCII (the tests use U+1F914).
NonAsciiChar == "U+1F914"

Alphabet ==
    {"O", "-", "N", "P", "e", "4", "x", "=", "+", "#", "k", "F", "0", " ",
     NonAsciiChar}

---------------------------------------------------------------------------
(* chess_common.rs: the vocabulary and its character codes.                *)

ChessPiece == {"Pawn", "Knight", "Bishop", "Rook", "Queen", "King"}

ChessFile == {"A", "B", "C", "D", "E", "F", "G", "H"}

ChessRank == {"R1", "R2", "R3", "R4", "R5", "R6", "R7", "R8"}

ChessCastle == {"KingsideCastle", "QueensideCastle"}

\* Mutant of ChessPiece::from: 'P' decodes as a pawn.
ChessPiece_from_WithPawn(c) ==
    CASE c = "N" -> "Knight"
      [] c = "B" -> "Bishop"
      [] c = "R" -> "Rook"
      [] c = "Q" -> "Queen"
      [] c = "K" -> "King"
      [] c = "P" -> "Pawn"
      [] OTHER   -> "None"

ChessPiece_from(c) ==
    CASE c = "N" -> "Knight"
      [] c = "B" -> "Bishop"
      [] c = "R" -> "Rook"
      [] c = "Q" -> "Queen"
      [] c = "K" -> "King"
      [] OTHER   -> "None"

ChessPiece_to_string(p) ==
    CASE p = "Pawn"   -> "P"
      [] p = "Knight" -> "N"
      [] p = "Bishop" -> "B"
      [] p = "Rook"   -> "R"
      [] p = "Queen"  -> "Q"
      [] p = "King"   -> "K"

\* Mutant of ChessFile_from: the uppercase file letters are accepted too.
ChessFile_from_AnyCase(c) ==
    CASE c \in {"a", "A"} -> "A"
      [] c \in {"b", "B"} -> "B"
      [] c \in {"c", "C"} -> "C"
      [] c \in {"d", "D"} -> "D"
      [] c \in {"e", "E"} -> "E"
      [] c \in {"f", "F"} -> "F"
      [] c \in {"g", "G"} -> "G"
      [] c \in {"h", "H"} -> "H"
      [] OTHER   -> "None"

ChessFile_from(c) ==
    CASE c = "a" -> "A"
      [] c = "b" -> "B"
      [] c = "c" -> "C"
      [] c = "d" -> "D"
      [] c = "e" -> "E"
      [] c = "f" -> "F"
      [] c = "g" -> "G"
      [] c = "h" -> "H"
      [] OTHER   -> "None"

ChessFile_to_string(f) ==
    CASE f = "A" -> "a"
      [] f = "B" -> "b"
      [] f = "C" -> "c"
      [] f = "D" -> "d"
      [] f = "E" -> "e"
      [] f = "F" -> "f"
      [] f = "G" -> "g"
      [] f = "H" -> "h"

ChessRank_from(c) ==
    CASE c = "1" -> "R1"
      [] c = "2" -> "R2"
      [] c = "3" -> "R3"
      [] c = "4" -> "R4"
      [] c = "5" -> "R5"
      [] c = "6" -> "R6"
      [] c = "7" -> "R7"
      [] c = "8" -> "R8"
      [] OTHER   -> "None"

ChessRank_to_string(r) ==
    CASE r = "R1" -> "1"
      [] r = "R2" -> "2"
      [] r = "R3" -> "3"
      [] r = "R4" -> "4"
      [] r = "R5" -> "5"
      [] r = "R6" -> "6"
      [] r = "R7" -> "7"
      [] r = "R8" -> "8"

\* Option<ChessCoordinate>: None, or Some of a coordinate whose file and
\* rank are each optional.
NoCoord == [some |-> FALSE, file |-> "None", rank |-> "None"]

SomeCoord(f, r) == [some |-> TRUE, file |-> f, rank |-> r]

is_empty(coord) == coord.rank = "None" /\ coord.file = "None"

\* Mutant of is_complete: one of the two parts is enough (is_partial).
is_complete_Either(coord) == coord.rank # "None" \/ coord.file # "None"

is_complete(coord) == coord.rank # "None" /\ coord.file # "None"

---------------------------------------------------------------------------
(* chess_pgn.rs: ChessMoveBuilder, ChessMove and the Result of build.      *)

\* ChessMoveBuilder::new()
ChessMoveBuilder_new ==
    [origin |-> NoCoord, destination |-> NoCoord, moving_piece |-> "None",
     castle |-> "None", promotion |-> "None",
     is_capture |-> FALSE, is_check |-> FALSE, is_check_mate |-> FALSE]

\* Mutant of set_origin: the setter writes the destination field.
set_origin_WrongField(b, origin) == [b EXCEPT !.destination = origin]

set_origin(b, origin) == [b EXCEPT !.origin = origin]

set_destination(b, dest) == [b EXCEPT !.destination = dest]

set_is_capture(b, capture) == [b EXCEPT !.is_capture = capture]

set_moving_piece(b, piece) == [b EXCEPT !.moving_piece = piece]

set_castle(b, direction) == [b EXCEPT !.castle = direction]

set_promotion(b, piece) == [b EXCEPT !.promotion = piece]

set_is_check(b, is_check) == [b EXCEPT !.is_check = is_check]

set_is_check_mate(b, is_mate) == [b EXCEPT !.is_check_mate = is_mate]

\* Result<ChessMove, ChessMoveBuildError>
Ok(m) == [ok |-> TRUE, err |-> "None", move |-> m]

Err(e) == [ok |-> FALSE, err |-> e, move |-> ChessMoveBuilder_new]

\* No Result yet: the call has not returned.
Pending == Err("Pending")

ChessMoveBuildError ==
    {"InvalidMove", "ImpossibleMove", "MissingDestination", "MissingMoveData",
     "InvalidInputFormat"}

\* Mutant of build: a castle is checked against capture only, a castle with
\* a promotion passes.
build_CastleCaptureOnly(b) ==
    IF b.is_check /\ b.is_check_mate
    THEN Err("ImpossibleMove")
    ELSE IF b.castle # "None" /\ b.is_capture
    THEN Err("ImpossibleMove")
    ELSE IF b.destination.some /\ ~is_complete(b.destination)
    THEN Err("MissingDestination")
    ELSE IF ~b.destination.some /\ b.castle = "None"
    THEN Err("MissingMoveData")
    ELSE LET piece == IF b.moving_piece = "None" THEN "Pawn" ELSE b.moving_piece
         IN  IF piece = "Pawn" /\ b.is_capture
                /\ (~b.origin.some \/ b.origin.file = "None")
             THEN Err("MissingMoveData")
             ELSE Ok([b EXCEPT !.moving_piece = piece])

\* Mutant of build: a missing piece is not replaced by Pawn.
build_NoDefaultPiece(b) ==
    IF b.is_check /\ b.is_check_mate
    THEN Err("ImpossibleMove")
    ELSE IF b.castle # "None" /\ (b.is_capture \/ b.promotion # "None")
    THEN Err("ImpossibleMove")
    ELSE IF b.destination.some /\ ~is_complete(b.destination)
    THEN Err("MissingDestination")
    ELSE IF ~b.destination.some /\ b.castle = "None"
    THEN Err("MissingMoveData")
    ELSE IF b.moving_piece = "Pawn" /\ b.is_capture
            /\ (~b.origin.some \/ b.origin.file = "None")
    THEN Err("MissingMoveData")
    ELSE Ok(b)

\* Mutant of build: the piece specific rule for pawn captures is left out.
build_NoPawnRule(b) ==
    IF b.is_check /\ b.is_check_mate
    THEN Err("ImpossibleMove")
    ELSE IF b.castle # "None" /\ (b.is_capture \/ b.promotion # "None")
    THEN Err("ImpossibleMove")
    ELSE IF b.destination.some /\ ~is_complete(b.destination)
    THEN Err("MissingDestination")
    ELSE IF ~b.destination.some /\ b.castle = "None"
    THEN Err("MissingMoveData")
    ELSE Ok([b EXCEPT !.moving_piece =
                 IF b.moving_piece = "None" THEN "Pawn" ELSE b.moving_piece])

\* Mutant of build: the destination is checked before the impossible
\* combinations.
build_DestinationFirst(b) ==
    IF b.destination.some /\ ~is_complete(b.destination)
    THEN Err("MissingDestination")
    ELSE IF ~b.destination.some /\ b.castle = "None"
    THEN Err("MissingMoveData")
    ELSE IF b.is_check /\ b.is_check_mate
    THEN Err("ImpossibleMove")
    ELSE IF b.castle # "None" /\ (b.is_capture \/ b.promotion # "None")
    THEN Err("ImpossibleMove")
    ELSE LET piece == IF b.moving_piece = "None" THEN "Pawn" ELSE b.moving_piece
         IN  IF piece = "Pawn" /\ b.is_capture
                /\ (~b.origin.some \/ b.origin.file = "None")
             THEN Err("MissingMoveData")
             ELSE Ok([b EXCEPT !.moving_piece = piece])

\* ChessMoveBuilder::build: the checks in the order of the code.
build(b) ==
    IF b.is_check /\ b.is_check_mate
    THEN Err("ImpossibleMove")
    ELSE IF b.castle # "None" /\ (b.is_capture \/ b.promotion # "None")
    THEN Err("ImpossibleMove")
    ELSE IF b.destination.some /\ ~is_complete(b.destination)
    THEN Err("MissingDestination")
    ELSE IF ~b.destination.some /\ b.castle = "None"
    THEN Err("MissingMoveData")
    ELSE LET piece == IF b.moving_piece = "None" THEN "Pawn" ELSE b.moving_piece
         IN  IF piece = "Pawn" /\ b.is_capture
                /\ (~b.origin.some \/ b.origin.file = "None")
             THEN Err("MissingMoveData")
             ELSE Ok([b EXCEPT !.moving_piece = piece])

\* Mutant of to_string: the origin rank is shown for every piece, pawns
\* included.
to_string_PawnRank(m) ==
    LET body ==
          IF m.castle # "None"
          THEN IF m.castle = "KingsideCastle"
               THEN <<"O", "-", "O">>
               ELSE <<"O", "-", "O", "-", "O">>
          ELSE (IF m.moving_piece # "None" /\ m.moving_piece # "Pawn"
                THEN <<ChessPiece_to_string(m.moving_piece)>> ELSE <<>>)
            \o (IF m.origin.some /\ m.origin.file # "None"
                THEN <<ChessFile_to_string(m.origin.file)>> ELSE <<>>)
            \o (IF m.origin.some /\ m.origin.rank # "None"
                THEN <<ChessRank_to_string(m.origin.rank)>> ELSE <<>>)
            \o (IF m.is_capture THEN <<"x">> ELSE <<>>)
            \o (IF m.destination.some /\ m.destination.file # "None"
                THEN <<ChessFile_to_string(m.destination.file)>> ELSE <<>>)
            \o (IF m.destination.some /\ m.destination.rank # "None"
                THEN <<ChessRank_to_string(m.destination.rank)>> ELSE <<>>)
            \o (IF m.promotion # "None"
                THEN <<"=", ChessPiece_to_string(m.promotion)>> ELSE <<>>)
    IN  body \o (IF m.is_check_mate THEN <<"#">>
                 ELSE IF m.is_check THEN <<"+">> ELSE <<>>)

\* impl Display for ChessMove (to_string), as a sequence of characters.
to_string(m) ==
    LET body ==
          IF m.castle # "None"
          THEN IF m.castle = "KingsideCastle"
               THEN <<"O", "-", "O">>
               ELSE <<"O", "-", "O", "-", "O">>
          ELSE (IF m.moving_piece # "None" /\ m.moving_piece # "Pawn"
                THEN <<ChessPiece_to_string(m.moving_piece)>> ELSE <<>>)
            \o (IF m.origin.some /\ m.origin.file # "None"
                THEN <<ChessFile_to_string(m.origin.file)>> ELSE <<>>)
            \o (IF m.origin.some /\ m.origin.rank # "None"
                   /\ m.moving_piece # "None" /\ m.moving_piece # "Pawn"
                THEN <<ChessRank_to_string(m.origin.rank)>> ELSE <<>>)
            \o (IF m.is_capture THEN <<"x">> ELSE <<>>)
            \o (IF m.destination.some /\ m.destination.file # "None"
                THEN <<ChessFile_to_string(m.destination.file)>> ELSE <<>>)
            \o (IF m.destination.some /\ m.destination.rank # "None"
                THEN <<ChessRank_to_string(m.destination.rank)>> ELSE <<>>)
            \o (IF m.promotion # "None"
                THEN <<"=", ChessPiece_to_string(m.promotion)>> ELSE <<>>)
    IN  body \o (IF m.is_check_mate THEN <<"#">>
                 ELSE IF m.is_check THEN <<"+">> ELSE <<>>)

---------------------------------------------------------------------------
(* chess_pgn.rs: ChessMove::from, the phased scan of a move string.        *)

\* The characters outside ASCII with the Unicode White_Space property,
\* each named by its code point.
NonAsciiWhiteSpace ==
    {"U+0085", "U+00A0", "U+1680", "U+2000", "U+2001", "U+2002", "U+2003",
     "U+2004", "U+2005", "U+2006", "U+2007", "U+2008", "U+2009", "U+200A",
     "U+2028", "U+2029", "U+202F", "U+205F", "U+3000"}

\* Characters outside ASCII (str::is_ascii is false when one is present).
NonAscii == {NonAsciiChar} \cup NonAsciiWhiteSpace

is_ascii(s) == \A i \in 1..Len(s) : s[i] \notin NonAscii

\* The vertical tab, U+000B.
VerticalTab == ""

\* The characters str::trim and str::split_whitespace take for white
\* space, those with the Unicode White_Space property: U+0009..U+000D and
\* U+0020 inside ASCII, and the ones outside it.
WhiteSpace ==
    {" ", "\t", "\n", VerticalTab, "\f", "\r"} \cup NonAsciiWhiteSpace

RECURSIVE trim_start(_)
trim_start(s) ==
    IF s # <<>> /\ Head(s) \in WhiteSpace THEN trim_start(Tail(s)) ELSE s

RECURSIVE trim_end(_)
trim_end(s) ==
    IF s # <<>> /\ s[Len(s)] \in WhiteSpace
    THEN trim_end(SubSeq(s, 1, Len(s) - 1)) ELSE s

\* Mutant of trim: only the leading white space is removed.
trim_StartOnly(s) == trim_start(s)

trim(s) == trim_end(trim_start(s))

\* Mutant of EntryCheck: the empty string is not rejected at entry.
EntryCheck_NoEmptyCheck(s) ==
    IF ~is_ascii(s) THEN "InvalidInputFormat" ELSE "None"

\* Mutant of EntryCheck: only the first character is tested for ASCII.
EntryCheck_FirstCharOnly(s) ==
    IF Len(s) = 0 THEN "MissingMoveData"
    ELSE IF s[1] \in NonAscii THEN "InvalidInputFormat"
    ELSE "None"

\* The two checks made before the scan: the error returned, or "None".
EntryCheck(s) ==
    IF Len(s) = 0 THEN "MissingMoveData"
    ELSE IF ~is_ascii(s) THEN "InvalidInputFormat"
    ELSE "None"

MoveBuildPhase ==
    {"CheckCastle", "PieceType", "Origin", "Capture", "Destination",
     "Promotion", "Checks", "Done"}

\* The locals of ChessMove::from before the call has created them.
NoScan ==
    [phase |-> "None", mov_str |-> <<>>, move_iter |-> <<>>,
     current_char |-> "None", castle_count |-> 0,
     board_file |-> "None", board_rank |-> "None",
     new_move |-> ChessMoveBuilder_new, ctl |-> "none", err |-> "None"]

\* move_iter.next(): the next character, or None for ever once exhausted.
Advance(s) ==
    IF s.move_iter = <<>>
    THEN [s EXCEPT !.current_char = "None"]
    ELSE [s EXCEPT !.current_char = Head(s.move_iter),
                   !.move_iter = Tail(s.move_iter)]

\* The locals when the loop is entered: phase CheckCastle and the first
\* character already taken from the iterator.
InitScan(mov_str) ==
    Advance([NoScan EXCEPT !.phase = "CheckCastle", !.mov_str = mov_str,
                           !.move_iter = mov_str, !.ctl = "loop"])

\* `break` and `return Err(e)` leave the loop.
Break(s) == [s EXCEPT !.ctl = "break"]

Return(s, e) == [s EXCEPT !.ctl = "return", !.err = e]

\* Mutant of CastleOfCount: three or more 'O' count as a queenside castle.
CastleOfCount_AtLeast(castle_count) ==
    IF castle_count >= 3 THEN "QueensideCastle"
    ELSE IF castle_count = 2 THEN "KingsideCastle"
    ELSE "None"

\* The castle a finished run of 'O' and '-' characters stands for.
CastleOfCount(castle_count) ==
    IF castle_count = 3 THEN "QueensideCastle"
    ELSE IF castle_count = 2 THEN "KingsideCastle"
    ELSE "None"

\* One iteration in phase CheckCastle.
CheckCastleStep(s) ==
    LET c == s.current_char
        count == IF c = "O" THEN s.castle_count + 1 ELSE s.castle_count
        castle_finish == c = "None" \/ (c # "O" /\ c # "-")
        t == [s EXCEPT !.castle_count = count]
    IN  IF ~castle_finish THEN Advance(t)
        ELSE IF CastleOfCount(count) # "None"
        THEN Advance([t EXCEPT
                 !.new_move = set_moving_piece(
                                  set_castle(@, CastleOfCount(count)), "King"),
                 !.phase = "Checks"])
        ELSE IF count = 0 /\ c # "None"
        THEN [t EXCEPT !.phase = "PieceType"]
        ELSE Return(t, "InvalidMove")

\* One iteration in phase PieceType.
PieceTypeStep(s) ==
    LET c == s.current_char
    IN  IF c = "None" THEN Return(s, "InvalidMove")
        ELSE IF ChessPiece_from(c) # "None"
        THEN Advance([s EXCEPT
                 !.new_move = set_moving_piece(@, ChessPiece_from(c)),
                 !.phase = "Origin"])
        ELSE [s EXCEPT !.phase = "Origin"]

\* Mutant of PhaseAfterOrigin: a character that is no marker sends the scan
\* back to phase PieceType.
PhaseAfterOrigin_Back(c) ==
    IF c = "=" THEN "Promotion"
    ELSE IF c = "+" \/ c = "#" THEN "Checks"
    ELSE "PieceType"

\* The phase that follows Origin, decided by the character after the
\* coordinate.
PhaseAfterOrigin(c) ==
    IF c = "=" THEN "Promotion"
    ELSE IF c = "+" \/ c = "#" THEN "Checks"
    ELSE "Capture"

\* Mutant of OriginIsDestination: only end of input makes the coordinate
\* the destination (no look-ahead for '=', '+', '#').
OriginIsDestination_EndOnly(c) == c = "None"

\* Whether the coordinate collected in phase Origin is the destination.
OriginIsDestination(c) == c = "None" \/ c = "=" \/ c = "+" \/ c = "#"

\* Mutant of CoordStep: a rank character is collected like a file
\* character, without ending the coordinate.
CoordStep_EitherOrder(s) ==
    LET c == s.current_char
        file_result == ChessFile_from(c)
        rank_result == ChessRank_from(c)
        takes_file == c # "None" /\ s.board_file = "None" /\ file_result # "None"
        takes_rank == ~takes_file /\ c # "None" /\ s.board_rank = "None"
                         /\ rank_result # "None"
    IN  IF takes_file
        THEN Advance([s EXCEPT !.board_file = file_result])
        ELSE IF takes_rank
        THEN Advance([s EXCEPT !.board_rank = rank_result])
        ELSE
          LET coord == SomeCoord(s.board_file, s.board_rank)
              moved ==
                IF is_empty(coord) THEN s.new_move
                ELSE IF s.phase = "Origin"
                THEN IF OriginIsDestination(s.current_char)
                     THEN set_destination(s.new_move, coord)
                     ELSE set_origin(s.new_move, coord)
                ELSE set_destination(s.new_move, coord)
              u == [s EXCEPT !.new_move = moved]
          IN  IF u.current_char = "None" THEN Break(u)
              ELSE [u EXCEPT !.board_file = "None", !.board_rank = "None",
                             !.phase = IF s.phase = "Origin"
                                       THEN PhaseAfterOrigin(u.current_char)
                                       ELSE "Promotion"]

\* One iteration in phase Origin or Destination (one match arm).
CoordStep(s) ==
    LET c == s.current_char
        file_result == ChessFile_from(c)
        rank_result == ChessRank_from(c)
        takes_file == c # "None" /\ s.board_file = "None" /\ file_result # "None"
        takes_rank == ~takes_file /\ c # "None" /\ s.board_rank = "None"
                         /\ rank_result # "None"
    IN  IF takes_file
        THEN Advance([s EXCEPT !.board_file = file_result])
        ELSE
          LET t == IF takes_rank
                   THEN Advance([s EXCEPT !.board_rank = rank_result])
                   ELSE s
              coord == SomeCoord(t.board_file, t.board_rank)
              moved ==
                IF is_empty(coord) THEN t.new_move
                ELSE IF s.phase = "Origin"
                THEN IF OriginIsDestination(t.current_char)
                     THEN set_destination(t.new_move, coord)
                     ELSE set_origin(t.new_move, coord)
                ELSE set_destination(t.new_move, coord)
              u == [t EXCEPT !.new_move = moved]
          IN  IF u.current_char = "None" THEN Break(u)
              ELSE [u EXCEPT !.board_file = "None", !.board_rank = "None",
                             !.phase = IF s.phase = "Origin"
                                       THEN PhaseAfterOrigin(u.current_char)
                                       ELSE "Promotion"]

\* Mutant of CaptureStep: a character other than 'x' is handed on without
\* leaving the phase.
CaptureStep_NoAdvance(s) ==
    LET c == s.current_char
    IN  IF c = "None" THEN Return(s, "InvalidMove")
        ELSE IF c = "x"
        THEN Advance([s EXCEPT !.new_move = set_is_capture(@, TRUE),
                               !.phase = "Destination"])
        ELSE s

\* Mutant of CaptureStep: the character is consumed whether or not it is
\* an 'x'.
CaptureStep_AlwaysConsume(s) ==
    LET c == s.current_char
    IN  IF c = "None" THEN Return(s, "InvalidMove")
        ELSE IF c = "x"
        THEN Advance([s EXCEPT !.new_move = set_is_capture(@, TRUE),
                               !.phase = "Destination"])
        ELSE Advance([s EXCEPT !.phase = "Destination"])

\* One iteration in phase Capture.
CaptureStep(s) ==
    LET c == s.current_char
    IN  IF c = "None" THEN Return(s, "InvalidMove")
        ELSE IF c = "x"
        THEN Advance([s EXCEPT !.new_move = set_is_capture(@, TRUE),
                               !.phase = "Destination"])
        ELSE [s EXCEPT !.phase = "Destination"]

\* Mutant of PromotionStep: an '=' with no piece letter after it is let
\* through instead of being an error.
PromotionStep_Lenient(s) ==
    LET c == s.current_char
    IN  IF c = "None" THEN Break(s)
        ELSE IF c = "="
        THEN LET t == Advance([s EXCEPT !.phase = "Checks"])
             IN  IF t.current_char # "None"
                    /\ ChessPiece_from(t.current_char) # "None"
                 THEN Advance([t EXCEPT !.new_move =
                          set_promotion(@, ChessPiece_from(t.current_char))])
                 ELSE t
        ELSE [s EXCEPT !.phase = "Checks"]

\* One iteration in phase Promotion.
PromotionStep(s) ==
    LET c == s.current_char
    IN  IF c = "None" THEN Break(s)
        ELSE IF c = "="
        THEN LET t == Advance([s EXCEPT !.phase = "Checks"])
             IN  IF t.current_char # "None"
                    /\ ChessPiece_from(t.current_char) # "None"
                 THEN Advance([t EXCEPT !.new_move =
                          set_promotion(@, ChessPiece_from(t.current_char))])
                 ELSE Return(t, "InvalidMove")
        ELSE [s EXCEPT !.phase = "Checks"]

\* One iteration in phase Checks.
\* Mutant of ChecksStep: a marker leaves the scan in phase Checks, so a
\* second marker is read too.
ChecksStep_KeepPhase(s) ==
    LET c == s.current_char
    IN  IF c = "None" THEN Break(s)
        ELSE IF c = "+"
        THEN Advance([s EXCEPT !.new_move = set_is_check(@, TRUE)])
        ELSE IF c = "#"
        THEN Advance([s EXCEPT !.new_move = set_is_check_mate(@, TRUE)])
        ELSE Return(s, "InvalidMove")

ChecksStep(s) ==
    LET c == s.current_char
        t == [s EXCEPT !.phase = "Done"]
    IN  IF c = "None" THEN Break(s)
        ELSE IF c = "+"
        THEN Advance([t EXCEPT !.new_move = set_is_check(@, TRUE)])
        ELSE IF c = "#"
        THEN Advance([t EXCEPT !.new_move = set_is_check_mate(@, TRUE)])
        ELSE Return(t, "InvalidMove")

\* One iteration in phase Done.
DoneStep(s) == Break(s)

\* One iteration of the loop: the match on the phase.
LoopStep(s) ==
    CASE s.phase = "CheckCastle" -> CheckCastleStep(s)
      [] s.phase = "PieceType"   -> PieceTypeStep(s)
      [] s.phase \in {"Origin", "Destination"} -> CoordStep(s)
      [] s.phase = "Capture"     -> CaptureStep(s)
      [] s.phase = "Promotion"   -> PromotionStep(s)
      [] s.phase = "Checks"      -> ChecksStep(s)
      [] s.phase = "Done"        -> DoneStep(s)

\* The loop run to its exit.
RECURSIVE RunLoop(_)
RunLoop(s) == IF s.ctl = "loop" THEN RunLoop(LoopStep(s)) ELSE s

\* What the call returns once the loop has been left.
ScanResult(s) == IF s.ctl = "return" THEN Err(s.err) ELSE build(s.new_move)

\* ChessMove::from as a function of its argument.
ChessMove_from(pgn_move_string) ==
    IF EntryCheck(pgn_move_string) # "None"
    THEN Err(EntryCheck(pgn_move_string))
    ELSE ScanResult(RunLoop(InitScan(trim(pgn_move_string))))

---------------------------------------------------------------------------
(* The inputs of the model.                                                *)

\* Every string over Alphabet of length at most MaxLen.
ShortInputs == UNION {[1..n -> Alphabet] : n \in 0..MaxLen}

\* Longer move strings, put together from one choice per part of a move:
\* piece letter, origin hint, capture marker, destination, promotion,
\* check marker.  Each part has well-formed and ill-formed choices.
SegPiece == {<<>>, <<"N">>, <<"P">>}

SegHint == {<<>>, <<"e">>, <<"4">>, <<"e", "4">>, <<"4", "e">>}

SegCapture == {<<>>, <<"x">>}

SegDest == {<<"d", "5">>, <<"d">>, <<"k", "5">>, <<"5", "b">>, <<>>}

SegPromotion == {<<>>, <<"=", "Q">>, <<"=", "P">>, <<"=">>}

SegCheck ==
    {<<>>, <<"+">>, <<"#">>, <<"+", "#">>, <<"+", "P">>, <<"=">>, <<"x">>,
     <<"e">>}

MoveInputs ==
    {p \o h \o x \o d \o q \o k :
        p \in SegPiece, h \in SegHint, x \in SegCapture, d \in SegDest,
        q \in SegPromotion, k \in SegCheck}

\* Castle strings: a run of 'O' and '-' characters and what follows it.
SegCastle ==
    {<<"O", "-", "O">>, <<"O", "-", "O", "-", "O">>,
     <<"O", "-", "O", "-", "O", "-", "O">>, <<"O", "O", "O">>,
     <<"O", "-", "-", "O">>, <<"-", "O", "-", "O", "-">>}

SegAfterCastle == SegCheck \cup {<<"+", "+">>, <<"e", "4">>, <<"x", "#">>, <<" ">>}

CastleInputs == {c \o k : c \in SegCastle, k \in SegAfterCastle}

\* Move strings with white space before, after and inside the move text.
SegPad == {<<>>, <<" ">>, <<"\t", " ">>, <<"\n">>, <<VerticalTab>>, <<"U+00A0">>}

SegSpaced ==
    {<<"e", "4">>, <<"N", "e", "x", "d", "5", "=", "Q", "+">>,
     <<"O", "-", "O">>, <<"e", " ", "4">>, <<"N", " ", "e", "4">>,
     <<"e", "4", " ", "+">>, <<"e", "4", "+", " ", "e">>,
     <<"e", "x", " ", "d", "5">>, <<"e", "8", "=", " ", "Q">>,
     <<"O", "-", "O", " ", "+">>, <<"O", "-", "O", " ", "e", "4">>,
     <<"O", " ", "O">>, <<"e", VerticalTab, "4">>, <<>>}

SpacedInputs == {l \o m \o r : l \in SegPad, m \in SegSpaced, r \in SegPad}

Inputs == ShortInputs \cup MoveInputs \cup CastleInputs \cup SpacedInputs

\* The values the caller hands to the builder's setters.
OriginValues == {SomeCoord(f, r) : f \in {"None", "E"}, r \in {"None", "R4"}}

DestinationValues == {SomeCoord(f, r) : f \in {"None", "D"}, r \in {"None", "R5"}}

PieceValues == {"Pawn", "Knight", "King"}

PromotionValues == {"Pawn", "Queen"}

\* The characters handed to the decoders: the letters, the digits and some
\* punctuation.
CodecChars ==
    {"a", "b", "c", "d", "e", "f", "g", "h", "i", "j", "k", "l", "m", "n",
     "o", "p", "q", "r", "s", "t", "u", "v", "w", "x", "y", "z",
     "A", "B", "C", "D", "E", "F", "G", "H", "I", "J", "K", "L", "M", "N",
     "O", "P", "Q", "R", "S", "T", "U", "V", "W", "X", "Y", "Z",
     "0", "1", "2", "3", "4", "5", "6", "7", "8", "9",
     "-", "+", "#", "=", " ", ".", "?", "*", "/"}

\* The moves pushed on a list, given by their text.
ListMoves ==
    {ChessMove_from(s).move :
        s \in {<<"e", "4">>, <<"N", "e", "x", "d", "5">>, <<"O", "-", "O">>}}

---------------------------------------------------------------------------
(* chess_pgn.rs: PgnMove and MoveList, the half-moves of a game in pairs.  *)

\* Option<ChessMove>
NoMove == [some |-> FALSE, move |-> ChessMoveBuilder_new]

SomeMove(m) == [some |-> TRUE, move |-> m]

PgnMove_new == [white_move |-> NoMove, black_move |-> NoMove]

PgnMoveState == {"WhiteToMove", "BlackToMove", "MoveComplete"}

\* Mutant of get_state: a pair with both halves reports BlackToMove.
get_state_NeverComplete(m) ==
    IF ~m.white_move.some THEN "WhiteToMove" ELSE "BlackToMove"

get_state(m) ==
    IF ~m.white_move.some THEN "WhiteToMove"
    ELSE IF ~m.black_move.some THEN "BlackToMove"
    ELSE "MoveComplete"

\* PgnMove::add_move; the bool it returns is not used by its caller.
add_move(m, nm) ==
    IF ~m.white_move.some THEN [m EXCEPT !.white_move = SomeMove(nm)]
    ELSE IF ~m.black_move.some THEN [m EXCEPT !.black_move = SomeMove(nm)]
    ELSE m

\* The bool PgnMove::add_move returns: false on a pair that is complete.
add_move_returns(m) == ~(m.white_move.some /\ m.black_move.some)

\* Mutant of remove_move: the white half-move is taken before the black.
remove_move_WhiteFirst(m) ==
    IF m.white_move.some
    THEN [pgn_move |-> [m EXCEPT !.white_move = NoMove], temp |-> m.white_move]
    ELSE IF m.black_move.some
    THEN [pgn_move |-> [m EXCEPT !.black_move = NoMove], temp |-> m.black_move]
    ELSE [pgn_move |-> m, temp |-> NoMove]

\* PgnMove::remove_move: the pair afterwards and the value returned.
remove_move(m) ==
    IF m.black_move.some
    THEN [pgn_move |-> [m EXCEPT !.black_move = NoMove], temp |-> m.black_move]
    ELSE IF m.white_move.some
    THEN [pgn_move |-> [m EXCEPT !.white_move = NoMove], temp |-> m.white_move]
    ELSE [pgn_move |-> m, temp |-> NoMove]

MoveList_new == <<>>

\* Mutant of push_move: every move opens a new pair.
push_move_AlwaysAppend(ms, nm) == Append(ms, add_move(PgnMove_new, nm))

\* Mutant of push_move: the move is always added to the last pair, even
\* when that pair is complete.
push_move_NeverAppend(ms, nm) ==
    LET ms1 == IF ms = <<>> THEN <<PgnMove_new>> ELSE ms
    IN  [ms1 EXCEPT ![Len(ms1)] = add_move(ms1[Len(ms1)], nm)]

\* MoveList::push_move
push_move(ms, nm) ==
    LET ms1 == IF ms = <<>> THEN <<PgnMove_new>> ELSE ms
        m   == ms1[Len(ms1)]
    IN  IF get_state(m) = "MoveComplete"
        THEN Append(ms1, add_move(PgnMove_new, nm))
        ELSE [ms1 EXCEPT ![Len(ms1)] = add_move(m, nm)]

\* The while loop of MoveList::pop_move.
RECURSIVE pop_loop(_, _)
pop_loop(ms, ret) ==
    IF ~ret.some /\ Len(ms) > 0
    THEN LET index == Len(ms)
             r     == remove_move(ms[index])
             ms1   == [ms EXCEPT ![index] = r.pgn_move]
         IN  IF ~r.temp.some
             THEN pop_loop(SubSeq(ms1, 1, index - 1), r.temp)
             ELSE pop_loop(ms1, r.temp)
    ELSE [moves |-> ms, ret_move |-> ret]

\* MoveList::pop_move: the list afterwards and the value returned.
pop_move(ms) == pop_loop(ms, NoMove)

ChessTurn == {"WhiteToMove", "BlackToMove"}

\* Mutant of get_turn: a list without pairs reports BlackToMove.
get_turn_DefaultBlack(ms) ==
    IF ms # <<>>
    THEN LET state == get_state(ms[Len(ms)])
         IN  IF state = "BlackToMove" THEN "BlackToMove" ELSE "WhiteToMove"
    ELSE "BlackToMove"

\* MoveList::get_turn
get_turn(ms) ==
    IF ms # <<>>
    THEN LET state == get_state(ms[Len(ms)])
         IN  IF state = "BlackToMove" THEN "BlackToMove" ELSE "WhiteToMove"
    ELSE "WhiteToMove"

\* The number of half-moves a list holds.
RECURSIVE HalfMoves(_)
HalfMoves(ms) ==
    IF ms = <<>> THEN 0
    ELSE HalfMoves(Tail(ms))
           + (IF Head(ms).white_move.some THEN 1 ELSE 0)
           + (IF Head(ms).black_move.some THEN 1 ELSE 0)

\* The list variables while no list is in use.
ListUnused ==
    /\ moves = MoveList_new
    /\ op = "new"
    /\ new_move = NoMove
    /\ ret_move = NoMove

---------------------------------------------------------------------------
(* chess_pgn.rs: PgnGame, its tag pairs and the rendering of a game.  Text *)
(* is a sequence of characters.                                            *)

Digits == <<"0", "1", "2", "3", "4", "5", "6", "7", "8", "9">>

\* The decimal digits of a natural number (format!("{}", n)).
RECURSIVE Decimal(_)
Decimal(n) ==
    IF n < 10 THEN <<Digits[n + 1]>>
    ELSE Decimal(n \div 10) \o <<Digits[(n % 10) + 1]>>

\* format!("{:01$}", n, width) for a natural number: zeros on the left up
\* to the width.
RECURSIVE ZeroPad(_, _)
ZeroPad(s, width) == IF Len(s) >= width THEN s ELSE ZeroPad(<<"0">> \o s, width)

\* impl Display for PgnDate
\* An Option<number> is <<>> for None and <<n>> for Some(n).
PgnDate_to_string(d) ==
    (IF d.year # <<>> THEN ZeroPad(Decimal(d.year[1]), 4)
     ELSE <<"?", "?", "?", "?">>)
    \o <<".">>
    \o (IF d.month # <<>> THEN ZeroPad(Decimal(d.month[1]), 2)
        ELSE <<"?", "?">>)
    \o <<".">>
    \o (IF d.day # <<>> THEN ZeroPad(Decimal(d.day[1]), 2) ELSE <<"?", "?">>)

\* PgnDate::now when the local time cannot be read.
NoDate == [year |-> <<>>, month |-> <<>>, day |-> <<>>]

\* The loop of Display for PgnRound over the numbers of a Known round.
RECURSIVE round_str(_, _)
round_str(rounds, i) ==
    IF i > Len(rounds) THEN <<>>
    ELSE Decimal(rounds[i])
           \o (IF i # Len(rounds) THEN <<".">> ELSE <<>>)
           \o round_str(rounds, i + 1)

\* str::split: the pieces of s between the occurrences of the character
\* sep; a text without sep is one piece, the empty text one empty piece.
split(s, sep) ==
    LET starts == {p \in 1..(Len(s) + 1) : p = 1 \/ s[p - 1] = sep}
        nth(k) == CHOOSE p \in starts :
                      Cardinality({q \in starts : q < p}) = k - 1
        stop(p) == CHOOSE q \in (p - 1)..Len(s) :
                      /\ \A r \in p..q : s[r] # sep
                      /\ (q = Len(s) \/ s[q + 1] = sep)
    IN  [k \in 1..Cardinality(starts) |-> SubSeq(s, nth(k), stop(nth(k)))]

\* A u32 is kept as its decimal digits without leading zeros.
U32Max == <<"4", "2", "9", "4", "9", "6", "7", "2", "9", "5">>

DigitChars == {Digits[i] : i \in 1..Len(Digits)}

DigitValue(c) == (CHOOSE i \in 1..Len(Digits) : Digits[i] = c) - 1

\* The number a exceeds u32::MAX.
ExceedsU32(a) ==
    \/ Len(a) > Len(U32Max)
    \/ /\ Len(a) = Len(U32Max)
       /\ \E i \in 1..Len(a) :
             /\ DigitValue(a[i]) > DigitValue(U32Max[i])
             /\ \A j \in 1..(i - 1) : a[j] = U32Max[j]

\* result * 10 + digit
PushDigit(acc, c) == IF acc = <<"0">> THEN <<c>> ELSE Append(acc, c)

\* The digit loop of u32::from_str from character i on: a character that
\* is no digit gives InvalidDigit, a value beyond u32::MAX PosOverflow.
RECURSIVE parse_digits(_, _, _)
parse_digits(s, i, acc) ==
    IF i > Len(s) THEN [ok |-> TRUE, value |-> acc, err |-> "None"]
    ELSE IF s[i] \notin DigitChars
    THEN [ok |-> FALSE, value |-> <<>>, err |-> "InvalidDigit"]
    ELSE IF ExceedsU32(PushDigit(acc, s[i]))
    THEN [ok |-> FALSE, value |-> <<>>, err |-> "PosOverflow"]
    ELSE parse_digits(s, i + 1, PushDigit(acc, s[i]))

\* Mutant of parse_u32: a leading '+' is not accepted.
parse_u32_NoSign(s) ==
    IF s = <<>> THEN [ok |-> FALSE, value |-> <<>>, err |-> "Empty"]
    ELSE parse_digits(s, 1, <<"0">>)

\* str::parse::<u32>: an optional '+' followed by one or more digits.
parse_u32(s) ==
    IF s = <<>> THEN [ok |-> FALSE, value |-> <<>>, err |-> "Empty"]
    ELSE LET digits == IF s[1] = "+" THEN Tail(s) ELSE s
         IN  IF digits = <<>>
             THEN [ok |-> FALSE, value |-> <<>>, err |-> "InvalidDigit"]
             ELSE parse_digits(digits, 1, <<"0">>)

\* The loop of PgnRound::from over the parts: the first part that does
\* not parse ends the call with its error.
RECURSIVE round_loop(_, _, _)
round_loop(parts, i, rounds) ==
    IF i > Len(parts) THEN [kind |-> "Ok", rounds |-> rounds, err |-> "None"]
    ELSE LET r == parse_u32(parts[i])
         IN  IF ~r.ok THEN [kind |-> "Err", rounds |-> <<>>, err |-> r.err]
             ELSE round_loop(parts, i + 1, Append(rounds, r.value))

\* PgnRound::from: Ok(Known(rounds)) or the ParseIntError.
PgnRound_from(round_text) == round_loop(split(trim(round_text), "."), 1, <<>>)

\* enum PgnRound
RoundUnknown == [kind |-> "Unknown", rounds |-> <<>>]

RoundInappropriate == [kind |-> "Inappropriate", rounds |-> <<>>]

RoundKnown(rounds) == [kind |-> "Known", rounds |-> rounds]

\* impl Display for PgnRound
PgnRound_to_string(r) ==
    IF r.kind = "Known" THEN round_str(r.rounds, 1)
    ELSE IF r.kind = "Unknown" THEN <<"?">>
    ELSE <<"-">>

PgnResult == {"WhiteWin", "BlackWin", "Draw", "Unknown"}

\* impl Display for PgnResult
PgnResult_to_string(r) ==
    CASE r = "WhiteWin" -> <<"1", "-", "0">>
      [] r = "BlackWin" -> <<"0", "-", "1">>
      [] r = "Draw"     -> <<"1", "/", "2", "-", "1", "/", "2">>
      [] r = "Unknown"  -> <<"*">>

\* impl Display for PgnTagPair: [Name "Value"]
PgnTagPair_to_string(tag_name, tag_value) ==
    <<"[">> \o tag_name \o <<" ", "\"">> \o tag_value \o <<"\"", "]">>

\* The tag names given by PgnGame::new.
TagEvent == <<"E", "v", "e", "n", "t">>

TagSite == <<"S", "i", "t", "e">>

TagDate == <<"D", "a", "t", "e">>

TagRound == <<"R", "o", "u", "n", "d">>

TagWhite == <<"W", "h", "i", "t", "e">>

TagBlack == <<"B", "l", "a", "c", "k">>

TagResult == <<"R", "e", "s", "u", "l", "t">>

\* PgnGame::new: the tag values of a new game, with the date now() gave.
PgnGame_new(date) ==
    [event |-> <<>>, site |-> <<>>, date |-> date, round |-> RoundUnknown,
     white |-> <<>>, black |-> <<>>, result |-> "Unknown"]

\* impl Display for PgnMove
PgnMove_to_string(m) ==
    IF m.white_move.some
    THEN to_string(m.white_move.move) \o <<" ">>
           \o (IF m.black_move.some THEN to_string(m.black_move.move)
               ELSE <<>>)
    ELSE <<>>

\* str::split_whitespace: the maximal runs of characters that are not
\* white space, in order.  A run starts where a character that is not
\* white space follows white space or the start of the text.
split_whitespace(s) ==
    LET starts == {p \in 1..Len(s) :
                      /\ s[p] \notin WhiteSpace
                      /\ (p = 1 \/ s[p - 1] \in WhiteSpace)}
        nth(k) == CHOOSE p \in starts :
                      Cardinality({q \in starts : q < p}) = k - 1
        stop(p) == CHOOSE q \in p..Len(s) :
                      /\ \A r \in p..q : s[r] \notin WhiteSpace
                      /\ (q = Len(s) \/ s[q + 1] \in WhiteSpace)
    IN  [k \in 1..Cardinality(starts) |-> SubSeq(s, nth(k), stop(nth(k)))]

\* output.split("\n").last(): the text after the last line break.
LastLine(s) ==
    LET breaks == {i \in 1..Len(s) : s[i] = "\n"}
    IN  IF breaks = {} THEN s
        ELSE SubSeq(s, (CHOOSE i \in breaks : \A j \in breaks : j <= i) + 1,
                    Len(s))

\* The column budget of a line of move text.
LineWidth == 80

\* Mutant of NeedsWrap: a pair is never wrapped.
NeedsWrap_Never(mvs, new_line) == FALSE

\* Line 310: the pair does not fit on the line being filled.
NeedsWrap(mvs, new_line) == Len(mvs) + Len(new_line) >= LineWidth

\* Lines 312-328: the loop over the tokens of a pair that does not fit.
RECURSIVE wrap_tokens(_, _, _)
wrap_tokens(tokens, k, st) ==
    IF k > Len(tokens) THEN st
    ELSE LET token == tokens[k]
         IN  wrap_tokens(tokens, k + 1,
               IF st.carriage_returned
               THEN [st EXCEPT !.new_line =
                        (IF Len(@) # 0 THEN @ \o <<" ">> ELSE @) \o token]
               ELSE IF Len(token) + Len(st.new_line) < LineWidth
               THEN [st EXCEPT !.new_line = @ \o token]
               ELSE [output |-> st.output \o st.new_line \o <<"\n">>,
                     new_line |-> <<>>,
                     carriage_returned |-> TRUE])

\* Lines 308-334: the loop over the pairs, from pair i on.  The state
\* after a pair is worked out before the next pair starts (every pair adds
\* at least its number or a line break, so the state always changes).
RECURSIVE render_pairs(_, _, _)
render_pairs(ms, i, st) ==
    IF i > Len(ms) THEN st
    ELSE LET mvs == Decimal(i) \o <<".", " ">> \o PgnMove_to_string(ms[i])
             next == IF NeedsWrap(mvs, st.new_line)
                     THEN wrap_tokens(split_whitespace(mvs), 1,
                                      [st EXCEPT !.carriage_returned = FALSE])
                     ELSE [st EXCEPT !.new_line = @ \o mvs \o <<" ">>]
         IN  IF next = st THEN st ELSE render_pairs(ms, i + 1, next)

\* impl Display for MoveList
MoveList_to_string(ms) ==
    LET st == render_pairs(ms, 1, [output |-> <<>>, new_line |-> <<>>,
                                   carriage_returned |-> FALSE])
    IN  st.output \o st.new_line

\* Lines 50-58: the seven tag lines and the empty line.
TagSection(tg) ==
    PgnTagPair_to_string(TagEvent, tg.event) \o <<"\n">>
    \o PgnTagPair_to_string(TagSite, tg.site) \o <<"\n">>
    \o PgnTagPair_to_string(TagDate, PgnDate_to_string(tg.date)) \o <<"\n">>
    \o PgnTagPair_to_string(TagRound, PgnRound_to_string(tg.round)) \o <<"\n">>
    \o PgnTagPair_to_string(TagWhite, tg.white) \o <<"\n">>
    \o PgnTagPair_to_string(TagBlack, tg.black) \o <<"\n">>
    \o PgnTagPair_to_string(TagResult, PgnResult_to_string(tg.result))
    \o <<"\n">>
    \o <<"\n">>

\* impl Display for PgnGame
PgnGame_to_string(tg, ms) ==
    LET output == TagSection(tg) \o MoveList_to_string(ms)
        last_line == LastLine(output)
        result_tag == PgnTagPair_to_string(TagResult,
                                           PgnResult_to_string(tg.result))
    IN  output
          \o (IF Len(last_line) + Len(result_tag) >= LineWidth
              THEN <<"\n">> ELSE <<>>)
          \o PgnResult_to_string(tg.result)

\* MoveList::push_move for each move of a sequence in turn.  Each push is
\* worked out before the next one starts (a push always changes the list).
RECURSIVE PushAll(_, _)
PushAll(ms, seq) ==
    IF seq = <<>> THEN ms
    ELSE LET pushed == push_move(ms, Head(seq))
         IN  IF pushed = ms THEN ms ELSE PushAll(pushed, Tail(seq))

\* No text has been returned by to_string of the game.
NotRendered == <<"NotRendered">>

\* The game variables while no game is in use.
GameUnused ==
    /\ tags = PgnGame_new(NoDate)
    /\ rendered = NotRendered

\* The vocabulary variable while no character or value is at hand.
NoCodec ==
    [kind |-> "none", value |-> "None", char |-> "None",
     piece |-> "Pending", file |-> "Pending", rank |-> "Pending"]

CodecUnused == codec = NoCodec

\* No call has been made on the PgnMove used on its own.
NoPairOp ==
    [op |-> "new", new_move |-> NoMove, added |-> FALSE, temp |-> NoMove]

PairUnused == pgn_move = PgnMove_new /\ pair_op = NoPairOp

\* PgnRound::from has not returned.
NoRoundRet == [kind |-> "Pending", rounds |-> <<>>, err |-> "None"]

RoundUnused == round_in = <<>> /\ round_ret = NoRoundRet

\* CommandParser::parse_vec has not returned.
NoParsed ==
    [kind |-> "Pending", err |-> "None", cmd_id |-> "None",
     arg_type |-> "None",
     args |-> [some |-> FALSE, args_string |-> <<>>, args_u32 |-> <<>>]]

CmdUnused == registered_cmds = <<>> /\ vec_input = <<>> /\ parsed = NoParsed

\* The variables of the parts of the program that are not in use.
RestUnused == PairUnused /\ RoundUnused /\ CmdUnused

---------------------------------------------------------------------------
(* The parser as a state machine: one action per loop iteration.           *)

Init ==
    /\ pc = "start"
    /\ input \in Inputs
    /\ builder = ChessMoveBuilder_new
    /\ built = Pending
    /\ scan = NoScan
    /\ result = Pending
    /\ ListUnused
    /\ GameUnused
    /\ CodecUnused
    /\ RestUnused

\* Lines 559-583: the entry checks, trim and the loop's initial locals.
Start ==
    /\ pc = "start"
    /\ IF EntryCheck(input) # "None"
       THEN /\ result' = Err(EntryCheck(input))
            /\ pc' = "done"
            /\ UNCHANGED scan
       ELSE /\ scan' = InitScan(trim(input))
            /\ pc' = "loop"
            /\ UNCHANGED result
    /\ UNCHANGED <<builder, built, input>>
    /\ UNCHANGED <<listVars, gameVars, codec, restVars>>

\* The effect of one loop iteration; a `return Err` inside the loop
\* delivers the result at once.
Iterate ==
    /\ scan' = LoopStep(scan)
    /\ pc' = IF scan'.ctl = "loop" THEN "loop"
             ELSE IF scan'.ctl = "break" THEN "build" ELSE "done"
    /\ result' = IF scan'.ctl = "return" THEN Err(scan'.err) ELSE result
    /\ UNCHANGED <<builder, built, input>>
    /\ UNCHANGED <<listVars, gameVars, codec, restVars>>

CheckCastle ==
    /\ pc = "loop"
    /\ scan.phase = "CheckCastle"
    /\ Iterate

PieceType ==
    /\ pc = "loop"
    /\ scan.phase = "PieceType"
    /\ Iterate

Origin ==
    /\ pc = "loop"
    /\ scan.phase = "Origin"
    /\ Iterate

Capture ==
    /\ pc = "loop"
    /\ scan.phase = "Capture"
    /\ Iterate

Destination ==
    /\ pc = "loop"
    /\ scan.phase = "Destination"
    /\ Iterate

Promotion ==
    /\ pc = "loop"
    /\ scan.phase = "Promotion"
    /\ Iterate

Checks ==
    /\ pc = "loop"
    /\ scan.phase = "Checks"
    /\ Iterate

Done ==
    /\ pc = "loop"
    /\ scan.phase = "Done"
    /\ Iterate

\* Line 782: new_move.build() after the loop.
Finish ==
    /\ pc = "build"
    /\ result' = build(scan.new_move)
    /\ pc' = "done"
    /\ UNCHANGED <<builder, built, input, scan>>
    /\ UNCHANGED <<listVars, gameVars, codec, restVars>>

Next ==
    \/ Start
    \/ CheckCastle
    \/ PieceType
    \/ Origin
    \/ Capture
    \/ Destination
    \/ Promotion
    \/ Checks
    \/ Done
    \/ Finish

Spec == Init /\ [][Next]_vars

\* A call that has started keeps running: the loop is executed by the
\* calling thread without waiting for anything.
SpecFair == Spec /\ WF_vars(Next)

---------------------------------------------------------------------------
(* The builder, the formatter and the parser in sequence: a caller fills a *)
(* builder, builds the move, renders it and parses the rendered text.      *)

InitRoundTrip ==
    /\ pc = "builder"
    /\ input = <<>>
    /\ builder = ChessMoveBuilder_new
    /\ built = Pending
    /\ scan = NoScan
    /\ result = Pending
    /\ ListUnused
    /\ GameUnused
    /\ CodecUnused
    /\ RestUnused

SetOrigin ==
    /\ pc = "builder"
    /\ \E v \in OriginValues : builder' = set_origin(builder, v)
    /\ UNCHANGED <<pc, built, input, scan, result>>
    /\ UNCHANGED <<listVars, gameVars, codec, restVars>>

SetDestination ==
    /\ pc = "builder"
    /\ \E v \in DestinationValues : builder' = set_destination(builder, v)
    /\ UNCHANGED <<pc, built, input, scan, result>>
    /\ UNCHANGED <<listVars, gameVars, codec, restVars>>

SetIsCapture ==
    /\ pc = "builder"
    /\ \E v \in BOOLEAN : builder' = set_is_capture(builder, v)
    /\ UNCHANGED <<pc, built, input, scan, result>>
    /\ UNCHANGED <<listVars, gameVars, codec, restVars>>

SetMovingPiece ==
    /\ pc = "builder"
    /\ \E v \in PieceValues : builder' = set_moving_piece(builder, v)
    /\ UNCHANGED <<pc, built, input, scan, result>>
    /\ UNCHANGED <<listVars, gameVars, codec, restVars>>

SetCastle ==
    /\ pc = "builder"
    /\ \E v \in ChessCastle : builder' = set_castle(builder, v)
    /\ UNCHANGED <<pc, built, input, scan, result>>
    /\ UNCHANGED <<listVars, gameVars, codec, restVars>>

SetPromotion ==
    /\ pc = "builder"
    /\ \E v \in PromotionValues : builder' = set_promotion(builder, v)
    /\ UNCHANGED <<pc, built, input, scan, result>>
    /\ UNCHANGED <<listVars, gameVars, codec, restVars>>

SetIsCheck ==
    /\ pc = "builder"
    /\ \E v \in BOOLEAN : builder' = set_is_check(builder, v)
    /\ UNCHANGED <<pc, built, input, scan, result>>
    /\ UNCHANGED <<listVars, gameVars, codec, restVars>>

SetIsCheckMate ==
    /\ pc = "builder"
    /\ \E v \in BOOLEAN : builder' = set_is_check_mate(builder, v)
    /\ UNCHANGED <<pc, built, input, scan, result>>
    /\ UNCHANGED <<listVars, gameVars, codec, restVars>>

\* ChessMoveBuilder::build
Build ==
    /\ pc = "builder"
    /\ built' = build(builder)
    /\ pc' = "built"
    /\ UNCHANGED <<builder, input, scan, result>>
    /\ UNCHANGED <<listVars, gameVars, codec, restVars>>

\* to_string of the built move, handed to ChessMove::from.
Display ==
    /\ pc = "built"
    /\ built.ok
    /\ input' = to_string(built.move)
    /\ pc' = "start"
    /\ UNCHANGED <<builder, built, scan, result>>
    /\ UNCHANGED <<listVars, gameVars, codec, restVars>>

NextRoundTrip ==
    \/ SetOrigin
    \/ SetDestination
    \/ SetIsCapture
    \/ SetMovingPiece
    \/ SetCastle
    \/ SetPromotion
    \/ SetIsCheck
    \/ SetIsCheckMate
    \/ Build
    \/ Display
    \/ Next

SpecRoundTrip == InitRoundTrip /\ [][NextRoundTrip]_vars

\* Both entry points of ChessMove: a caller either parses a string of
\* Inputs or fills a builder and builds (and may render and parse the
\* built move).
InitChessMove == Init \/ InitRoundTrip

SpecChessMove == InitChessMove /\ [][NextRoundTrip]_vars

---------------------------------------------------------------------------
(* The encoders (Display) and decoders (from) of ChessPiece, ChessFile and *)
(* ChessRank, applied to a vocabulary value or to a character.             *)

InitVocabulary ==
    /\ pc = "codec"
    /\ input = <<>>
    /\ builder = ChessMoveBuilder_new
    /\ built = Pending
    /\ scan = NoScan
    /\ result = Pending
    /\ ListUnused
    /\ GameUnused
    /\ RestUnused
    /\ \/ codec = NoCodec
       \/ \E c \in CodecChars : codec = [NoCodec EXCEPT !.kind = "char", !.char = c]

PieceToString ==
    /\ pc = "codec"
    /\ codec.kind = "none"
    /\ \E p \in ChessPiece :
          codec' = [codec EXCEPT !.kind = "piece", !.value = p,
                                 !.char = ChessPiece_to_string(p)]
    /\ UNCHANGED <<moveVars, listVars, gameVars, restVars>>

FileToString ==
    /\ pc = "codec"
    /\ codec.kind = "none"
    /\ \E f \in ChessFile :
          codec' = [codec EXCEPT !.kind = "file", !.value = f,
                                 !.char = ChessFile_to_string(f)]
    /\ UNCHANGED <<moveVars, listVars, gameVars, restVars>>

RankToString ==
    /\ pc = "codec"
    /\ codec.kind = "none"
    /\ \E r \in ChessRank :
          codec' = [codec EXCEPT !.kind = "rank", !.value = r,
                                 !.char = ChessRank_to_string(r)]
    /\ UNCHANGED <<moveVars, listVars, gameVars, restVars>>

PieceFrom ==
    /\ pc = "codec"
    /\ codec.char # "None"
    /\ codec.piece = "Pending"
    /\ codec' = [codec EXCEPT !.piece = ChessPiece_from(codec.char)]
    /\ UNCHANGED <<moveVars, listVars, gameVars, restVars>>

FileFrom ==
    /\ pc = "codec"
    /\ codec.char # "None"
    /\ codec.file = "Pending"
    /\ codec' = [codec EXCEPT !.file = ChessFile_from(codec.char)]
    /\ UNCHANGED <<moveVars, listVars, gameVars, restVars>>

RankFrom ==
    /\ pc = "codec"
    /\ codec.char # "None"
    /\ codec.rank = "Pending"
    /\ codec' = [codec EXCEPT !.rank = ChessRank_from(codec.char)]
    /\ UNCHANGED <<moveVars, listVars, gameVars, restVars>>

NextVocabulary ==
    \/ PieceToString
    \/ FileToString
    \/ RankToString
    \/ PieceFrom
    \/ FileFrom
    \/ RankFrom

SpecVocabulary == InitVocabulary /\ [][NextVocabulary]_vars

---------------------------------------------------------------------------
(* A MoveList (the moves of a PgnGame, whose push_move, pop_move and       *)
(* get_turn hand over to the list) under any sequence of pushes and pops.  *)

InitMoveList ==
    /\ pc = "list"
    /\ input = <<>>
    /\ builder = ChessMoveBuilder_new
    /\ built = Pending
    /\ scan = NoScan
    /\ result = Pending
    /\ moves = MoveList_new
    /\ op = "new"
    /\ new_move = NoMove
    /\ ret_move = NoMove
    /\ GameUnused
    /\ CodecUnused
    /\ RestUnused

PushMove ==
    /\ pc = "list"
    /\ HalfMoves(moves) < MaxHalfMoves
    /\ \E m \in ListMoves :
          /\ moves' = push_move(moves, m)
          /\ new_move' = SomeMove(m)
    /\ op' = "push_move"
    /\ ret_move' = NoMove
    /\ rendered' = NotRendered
    /\ UNCHANGED <<moveVars, tags, codec, restVars>>

PopMove ==
    /\ pc = "list"
    /\ moves' = pop_move(moves).moves
    /\ ret_move' = pop_move(moves).ret_move
    /\ op' = "pop_move"
    /\ new_move' = NoMove
    /\ rendered' = NotRendered
    /\ UNCHANGED <<moveVars, tags, codec, restVars>>

NextMoveList == PushMove \/ PopMove

SpecMoveList == InitMoveList /\ [][NextMoveList]_vars

---------------------------------------------------------------------------
(* chess_command.rs: CommandParser.  A word is a sequence of characters,   *)
(* an Option<ArgContainer> a record with the flag some.                    *)

ArgType == {"ArgType_String", "ArgType_u32"}

CommandError ==
    {"NoCommandRecieved", "CommandNotFound", "IncorrectNumberOfArguments",
     "InvalidArgumentType"}

\* ArgContainer::new
ArgContainer_new == [args_string |-> <<>>, args_u32 |-> <<>>]

NoArgs == [some |-> FALSE, args_string |-> <<>>, args_u32 |-> <<>>]

SomeArgs(c) ==
    [some |-> TRUE, args_string |-> c.args_string, args_u32 |-> c.args_u32]

\* Ok(ParsedCommand::new(cmd_id, arg_type, args))
ParsedOk(cmd_id, arg_type, args) ==
    [kind |-> "Ok", err |-> "None", cmd_id |-> cmd_id, arg_type |-> arg_type,
     args |-> args]

ParsedErr(e) ==
    [kind |-> "Err", err |-> e, cmd_id |-> "None", arg_type |-> "None",
     args |-> NoArgs]

\* RegisteredCommand::is_cmd
is_cmd(rcmd, other_str) ==
    \E i \in 1..Len(rcmd.cmd_aliases) : rcmd.cmd_aliases[i] = other_str

\* The loop over the u32 arguments, from argument i on: the first that
\* does not parse ends the call.
RECURSIVE take_u32(_, _, _, _)
take_u32(rcmd, input_args, i, container) ==
    IF i > rcmd.num_args
    THEN ParsedOk(rcmd.cmd_id, rcmd.arg_type, SomeArgs(container))
    ELSE LET v == parse_u32(input_args[i])
         IN  IF v.ok
             THEN take_u32(rcmd, input_args, i + 1,
                           [container EXCEPT !.args_u32 = Append(@, v.value)])
             ELSE ParsedErr("InvalidArgumentType")

\* Mutant of parse_cmd: all the given arguments are taken, not only the
\* first num_args.
parse_cmd_TakeAll(rcmd, input_args) ==
    IF Len(input_args) >= rcmd.num_args
    THEN IF rcmd.arg_type = "ArgType_String"
         THEN ParsedOk(rcmd.cmd_id, rcmd.arg_type,
                       SomeArgs([ArgContainer_new EXCEPT
                                    !.args_string = input_args]))
         ELSE IF rcmd.arg_type = "ArgType_u32"
         THEN take_u32([rcmd EXCEPT !.num_args = Len(input_args)],
                       input_args, 1, ArgContainer_new)
         ELSE ParsedOk(rcmd.cmd_id, "None", NoArgs)
    ELSE IF Len(input_args) # 0
    THEN ParsedErr("IncorrectNumberOfArguments")
    ELSE IF rcmd.default_args.some
    THEN ParsedOk(rcmd.cmd_id, rcmd.arg_type, rcmd.default_args)
    ELSE ParsedErr("IncorrectNumberOfArguments")

\* CommandParser::parse_cmd
parse_cmd(rcmd, input_args) ==
    IF Len(input_args) >= rcmd.num_args
    THEN IF rcmd.arg_type = "ArgType_String"
         THEN ParsedOk(rcmd.cmd_id, rcmd.arg_type,
                       SomeArgs([ArgContainer_new EXCEPT
                                    !.args_string =
                                        SubSeq(input_args, 1, rcmd.num_args)]))
         ELSE IF rcmd.arg_type = "ArgType_u32"
         THEN take_u32(rcmd, input_args, 1, ArgContainer_new)
         ELSE ParsedOk(rcmd.cmd_id, "None", NoArgs)
    ELSE IF Len(input_args) # 0
    THEN ParsedErr("IncorrectNumberOfArguments")
    ELSE IF rcmd.default_args.some
    THEN ParsedOk(rcmd.cmd_id, rcmd.arg_type, rcmd.default_args)
    ELSE ParsedErr("IncorrectNumberOfArguments")

\* The loop of parse_vec over the registered commands, from command i on.
RECURSIVE find_cmd(_, _, _)
find_cmd(cmds, vec_in, i) ==
    IF i > Len(cmds) THEN ParsedErr("CommandNotFound")
    ELSE IF is_cmd(cmds[i], vec_in[1])
    THEN parse_cmd(cmds[i], Tail(vec_in))
    ELSE find_cmd(cmds, vec_in, i + 1)

\* CommandParser::parse_vec
parse_vec(cmds, vec_in) ==
    IF Len(vec_in) > 0 THEN find_cmd(cmds, vec_in, 1)
    ELSE ParsedErr("NoCommandRecieved")

\* RegisteredCommandBuilder: new(id), add_aliases, add_num_args,
\* add_arg_type, add_default_args_string or add_default_args_u32, build.
RegisteredCommand(id, aliases, n, arg_type, default_args) ==
    [cmd_id |-> id, cmd_aliases |-> aliases, num_args |-> n,
     arg_type |-> arg_type, default_args |-> default_args]

\* The commands a caller registers: typed and untyped ones, with and
\* without default arguments, two of them sharing the alias "m".
Commands ==
    {RegisteredCommand("Move", <<<<"m">>, <<"m", "v">>>>, 2,
                       "ArgType_String",
                       SomeArgs([ArgContainer_new EXCEPT
                                    !.args_string = <<<<"x">>>>])),
     RegisteredCommand("Undo", <<<<"u">>>>, 2, "ArgType_u32", NoArgs),
     RegisteredCommand("Quit", <<<<"q">>, <<"m">>>>, 0, "None", NoArgs),
     RegisteredCommand("Note", <<<<"n">>>>, 2, "None", NoArgs)}

\* The words that can follow the command word.
ArgWords == {<<"7">>, <<"x">>, <<"+", "5">>}

CommandWords == {<<"m">>, <<"m", "v">>, <<"u">>, <<"q">>, <<"n">>, <<"z">>}

VecInputs ==
    {<<>>} \cup
    {<<w>> \o a : w \in CommandWords,
                  a \in UNION {[1..k -> ArgWords] : k \in 0..MaxArgs}}

InitCommand ==
    /\ pc = "command"
    /\ input = <<>>
    /\ builder = ChessMoveBuilder_new
    /\ built = Pending
    /\ scan = NoScan
    /\ result = Pending
    /\ ListUnused
    /\ GameUnused
    /\ CodecUnused
    /\ RestUnused

\* CommandParser::register_cmd
register_cmd ==
    /\ pc = "command"
    /\ Len(registered_cmds) < MaxCmds
    /\ \E cmd \in Commands : registered_cmds' = Append(registered_cmds, cmd)
    /\ vec_input' = <<>>
    /\ parsed' = NoParsed
    /\ UNCHANGED <<moveVars, listVars, gameVars, codec, pairVars, roundVars>>

\* The lists of commands a caller hands over in one call.
CommandLists == UNION {[1..k -> Commands] : k \in 0..MaxCmds}

\* CommandParser::register_cmds: the list given replaces the registered
\* commands.
register_cmds ==
    /\ pc = "command"
    /\ \E cmds \in CommandLists : registered_cmds' = cmds
    /\ vec_input' = <<>>
    /\ parsed' = NoParsed
    /\ UNCHANGED <<moveVars, listVars, gameVars, codec, pairVars, roundVars>>

\* CommandParser::parse_vec, called once on the parser as registered so
\* far: the call leaves the parser as it is, so a second call on the same
\* parser adds nothing.
ParseVec ==
    /\ pc = "command"
    /\ parsed = NoParsed
    /\ \E v \in VecInputs :
          /\ vec_input' = v
          /\ parsed' = parse_vec(registered_cmds, v)
    /\ UNCHANGED <<moveVars, listVars, gameVars, codec, pairVars, roundVars,
                   registered_cmds>>

NextCommand == register_cmd \/ register_cmds \/ ParseVec

SpecCommand == InitCommand /\ [][NextCommand]_vars

---------------------------------------------------------------------------
(* PgnRound::from applied to a text.                                       *)

\* The parts a round text is put together from.
SegRound ==
    {<<"1">>, <<"1", "2">>, <<"0", "0", "7">>, <<"0">>, <<"+", "3">>,
     <<"-", "1">>, <<"+">>, <<>>, <<"x">>, <<"?">>, <<"1", " ">>,
     <<"4", "2", "9", "4", "9", "6", "7", "2", "9", "5">>,
     <<"4", "2", "9", "4", "9", "6", "7", "2", "9", "6">>,
     <<"0", "4", "2", "9", "4", "9", "6", "7", "2", "9", "5">>,
     <<"9", "9", "9", "9", "9", "9", "9", "9", "9", "9", "9", "x">>}

RoundPadLeft == {<<>>, <<" ">>, <<VerticalTab>>, <<"U+00A0">>}

RoundPadRight == {<<>>, <<"\n">>, <<"U+2003", VerticalTab>>}

RoundInputs ==
    {l \o a \o r : l \in RoundPadLeft, a \in SegRound, r \in RoundPadRight}
    \cup {l \o a \o <<".">> \o b \o r :
            l \in RoundPadLeft, a \in SegRound, b \in SegRound,
            r \in RoundPadRight}
    \cup {<<"1", ".", "2", ".", "3">>, <<"1", ".", ".", "2">>,
          <<"1", ".", "2", ".">>, <<".">>}

InitRound ==
    /\ pc = "round"
    /\ input = <<>>
    /\ builder = ChessMoveBuilder_new
    /\ built = Pending
    /\ scan = NoScan
    /\ result = Pending
    /\ ListUnused
    /\ GameUnused
    /\ CodecUnused
    /\ PairUnused
    /\ CmdUnused
    /\ round_in \in RoundInputs
    /\ round_ret = NoRoundRet

\* PgnRound::from
RoundFrom ==
    /\ pc = "round"
    /\ round_ret.kind = "Pending"
    /\ round_ret' = PgnRound_from(round_in)
    /\ UNCHANGED <<moveVars, listVars, gameVars, codec, pairVars, cmdVars,
                   round_in>>

NextRound == RoundFrom

SpecRound == InitRound /\ [][NextRound]_vars

---------------------------------------------------------------------------
(* A PgnMove used on its own, under any sequence of add_move and           *)
(* remove_move calls.                                                      *)

\* The moves handed to add_move.
PairMoves ==
    {ChessMove_from(s).move :
        s \in {<<"e", "4">>, <<"N", "e", "x", "d", "5">>, <<"O", "-", "O">>,
               <<"Q", "h", "4", "+">>, <<"e", "8", "=", "Q">>}}

InitPgnMove ==
    /\ pc = "pair"
    /\ input = <<>>
    /\ builder = ChessMoveBuilder_new
    /\ built = Pending
    /\ scan = NoScan
    /\ result = Pending
    /\ ListUnused
    /\ GameUnused
    /\ CodecUnused
    /\ RestUnused

\* PgnMove::add_move
AddMove ==
    /\ pc = "pair"
    /\ \E m \in PairMoves :
          /\ pgn_move' = add_move(pgn_move, m)
          /\ pair_op' = [op |-> "add_move", new_move |-> SomeMove(m),
                         added |-> add_move_returns(pgn_move),
                         temp |-> NoMove]
    /\ UNCHANGED <<moveVars, listVars, gameVars, codec, roundVars, cmdVars>>

\* PgnMove::remove_move
RemoveMove ==
    /\ pc = "pair"
    /\ pgn_move' = remove_move(pgn_move).pgn_move
    /\ pair_op' = [op |-> "remove_move", new_move |-> NoMove,
                   added |-> FALSE, temp |-> remove_move(pgn_move).temp]
    /\ UNCHANGED <<moveVars, listVars, gameVars, codec, roundVars, cmdVars>>

NextPgnMove == AddMove \/ RemoveMove

SpecPgnMove == InitPgnMove /\ [][NextPgnMove]_vars

---------------------------------------------------------------------------
(* A PgnGame rendered by to_string.  Two families of games are explored:   *)
(* games that hold no move and have their tags set in any order, and games *)
(* with the tags of PgnGame::new whose moves were pushed one by one, long  *)
(* enough for the move text to wrap, with any result.                      *)

\* Values handed to set_event, set_site, set_white and set_black.
TagTexts == {<<"A">>, <<"B", "o", "b", " ", "F">>}

\* Dates PgnDate::now gives (none when the local offset is not known, or
\* the day the game is made) and values handed to set_date.
DateValues ==
    {NoDate,
     [year |-> <<2024>>, month |-> <<1>>, day |-> <<5>>],
     [year |-> <<2026>>, month |-> <<10>>, day |-> <<31>>],
     [year |-> <<987>>, month |-> <<>>, day |-> <<12>>]}

\* Values handed to set_round.
RoundValues ==
    {RoundUnknown, RoundInappropriate, RoundKnown(<<1>>), RoundKnown(<<3, 1>>)}

\* The sequence of n copies of the move m.
RECURSIVE Fill(_, _)
Fill(n, m) == IF n = 0 THEN <<>> ELSE <<m>> \o Fill(n - 1, m)

\* The sequences of moves of length at most n.
RECURSIVE Tails(_)
Tails(n) ==
    IF n = 0 THEN {<<>>}
    ELSE Tails(n - 1)
           \cup {Append(s, m) : s \in {x \in Tails(n - 1) : Len(x) = n - 1},
                                m \in ListMoves}

\* The moves pushed to a game before it is rendered.
GameSeqs ==
    {Fill(k, m) \o s :
        k \in 0..MaxFill,
        m \in {ChessMove_from(<<"e", "4">>).move,
               ChessMove_from(<<"N", "e", "x", "d", "5">>).move},
        s \in Tails(MaxTail)}

InitGame ==
    /\ input = <<>>
    /\ builder = ChessMoveBuilder_new
    /\ built = Pending
    /\ scan = NoScan
    /\ result = Pending
    /\ ret_move = NoMove
    /\ rendered = NotRendered
    /\ CodecUnused
    /\ RestUnused
    /\ \/ /\ pc = "tags"
          /\ moves = MoveList_new
          /\ op = "new"
          /\ new_move = NoMove
          /\ \E d \in DateValues : tags = PgnGame_new(d)
       \/ /\ pc = "list"
          /\ \E d \in DateValues : tags = PgnGame_new(d)
          /\ \E seq \in GameSeqs :
                /\ moves = PushAll(MoveList_new, seq)
                /\ op = IF seq = <<>> THEN "new" ELSE "push_move"
                /\ new_move = IF seq = <<>> THEN NoMove
                              ELSE SomeMove(seq[Len(seq)])

set_event ==
    /\ pc = "tags"
    /\ \E v \in TagTexts : tags' = [tags EXCEPT !.event = v]
    /\ rendered' = NotRendered
    /\ UNCHANGED <<moveVars, listVars, codec, restVars>>

set_site ==
    /\ pc = "tags"
    /\ \E v \in TagTexts : tags' = [tags EXCEPT !.site = v]
    /\ rendered' = NotRendered
    /\ UNCHANGED <<moveVars, listVars, codec, restVars>>

set_date ==
    /\ pc = "tags"
    /\ \E v \in DateValues : tags' = [tags EXCEPT !.date = v]
    /\ rendered' = NotRendered
    /\ UNCHANGED <<moveVars, listVars, codec, restVars>>

set_round ==
    /\ pc = "tags"
    /\ \E v \in RoundValues : tags' = [tags EXCEPT !.round = v]
    /\ rendered' = NotRendered
    /\ UNCHANGED <<moveVars, listVars, codec, restVars>>

set_white ==
    /\ pc = "tags"
    /\ \E v \in TagTexts : tags' = [tags EXCEPT !.white = v]
    /\ rendered' = NotRendered
    /\ UNCHANGED <<moveVars, listVars, codec, restVars>>

set_black ==
    /\ pc = "tags"
    /\ \E v \in TagTexts : tags' = [tags EXCEPT !.black = v]
    /\ rendered' = NotRendered
    /\ UNCHANGED <<moveVars, listVars, codec, restVars>>

set_result ==
    /\ pc \in {"tags", "list"}
    /\ \E v \in PgnResult : tags' = [tags EXCEPT !.result = v]
    /\ rendered' = NotRendered
    /\ UNCHANGED <<moveVars, listVars, codec, restVars>>

\* to_string of the game.
Render ==
    /\ pc \in {"tags", "list"}
    /\ rendered' = PgnGame_to_string(tags, moves)
    /\ UNCHANGED <<moveVars, listVars, tags, codec, restVars>>

NextGame ==
    \/ set_event
    \/ set_site
    \/ set_date
    \/ set_round
    \/ set_white
    \/ set_black
    \/ set_result
    \/ PushMove
    \/ PopMove
    \/ Render

SpecGame == InitGame /\ [][NextGame]_vars

---------------------------------------------------------------------------
(* Vocabulary of the claims: the characters of PGN move text and the       *)
(* values they stand for, written out independently of the decoders.       *)

PieceLetters == {"N", "B", "R", "Q", "K"}

FileLetters == {"a", "b", "c", "d", "e", "f", "g", "h"}

RankDigits == {"1", "2", "3", "4", "5", "6", "7", "8"}

PieceOf ==
    ("N" :> "Knight") @@ ("B" :> "Bishop") @@ ("R" :> "Rook")
    @@ ("Q" :> "Queen") @@ ("K" :> "King")

FileOf ==
    ("a" :> "A") @@ ("b" :> "B") @@ ("c" :> "C") @@ ("d" :> "D")
    @@ ("e" :> "E") @@ ("f" :> "F") @@ ("g" :> "G") @@ ("h" :> "H")

RankOf ==
    ("1" :> "R1") @@ ("2" :> "R2") @@ ("3" :> "R3") @@ ("4" :> "R4")
    @@ ("5" :> "R5") @@ ("6" :> "R6") @@ ("7" :> "R7") @@ ("8" :> "R8")

\* The call has returned.
Returned == pc = "done"

\* The number of 'O' in the leading run of 'O' and '-' characters of s.
RECURSIVE CastleRunCount(_)
CastleRunCount(s) ==
    IF s = <<>> \/ Head(s) \notin {"O", "-"} THEN 0
    ELSE (IF Head(s) = "O" THEN 1 ELSE 0) + CastleRunCount(Tail(s))

OnlyCastleChars(s) == s # <<>> /\ \A i \in 1..Len(s) : s[i] \in {"O", "-"}

CastleMove(direction) ==
    [ChessMoveBuilder_new EXCEPT !.castle = direction, !.moving_piece = "King"]

---------------------------------------------------------------------------
(* C1: round trip from the formatter's output.  For every move m that      *)
(* build accepts, ChessMove::from(m.to_string()) succeeds and returns a    *)
(* move equal to m in all eight fields.                                    *)
C1_RoundTrip == (Returned /\ built.ok) => result = Ok(built.move)

(* C2: a castle string is classified by the number of 'O' in its run of    *)
(* 'O' and '-' characters: 2 gives Kingside and 3 gives Queenside, with    *)
(* piece King and every other field unset or false; a string of only '-'   *)
(* and any run with another non-zero count give InvalidMove.               *)
C2_CastleClassification ==
    (Returned /\ is_ascii(input)) =>
        LET n == CastleRunCount(input)
        IN  /\ (OnlyCastleChars(input) /\ n = 2)
                 => result = Ok(CastleMove("KingsideCastle"))
            /\ (OnlyCastleChars(input) /\ n = 3)
                 => result = Ok(CastleMove("QueensideCastle"))
            /\ (OnlyCastleChars(input) /\ n = 0)
                 => result = Err("InvalidMove")
            /\ n \notin {0, 2, 3} => result = Err("InvalidMove")

C2_Witness ==
    /\ Returned
    /\ input = <<"O", "-", "O", "-", "O">>
    /\ result.ok
    /\ result.move.castle = "QueensideCastle"

(* C9: ChessMove::from on the empty string returns MissingMoveData before  *)
(* any phase of the scan runs.                                             *)
C9_EmptyInput ==
    (Returned /\ input = <<>>) =>
        (result = Err("MissingMoveData") /\ scan = NoScan)

C9_Witness == Returned /\ Len(input) = 0 /\ result.err = "MissingMoveData"

(* C10: a non-empty string with at least one non-ASCII character gives     *)
(* InvalidInputFormat, whatever the other characters are, and never        *)
(* InvalidMove; the scan does not run.                                     *)
C10_NonAscii ==
    (Returned /\ \E i \in 1..Len(input) : input[i] \in NonAscii) =>
        (result = Err("InvalidInputFormat") /\ scan = NoScan)

C10_Witness ==
    /\ Returned
    /\ input = <<"e", "4", NonAsciiChar>>
    /\ result.err = "InvalidInputFormat"

---------------------------------------------------------------------------
(* Positions in a move string, read off the text alone: each Skip steps    *)
(* over one optional character of the given kind.                          *)

SkipPiece(s, i) == IF i <= Len(s) /\ s[i] \in PieceLetters THEN i + 1 ELSE i

SkipFile(s, i) == IF i <= Len(s) /\ s[i] \in FileLetters THEN i + 1 ELSE i

SkipRank(s, i) == IF i <= Len(s) /\ s[i] \in RankDigits THEN i + 1 ELSE i

SkipX(s, i) == IF i <= Len(s) /\ s[i] = "x" THEN i + 1 ELSE i

\* The coordinate written at s[i..j-1]: a file, a rank, both or nothing.
HintAt(s, i, j) ==
    IF j = i THEN NoCoord
    ELSE SomeCoord(IF s[i] \in FileLetters THEN FileOf[s[i]] ELSE "None",
                   IF s[j - 1] \in RankDigits THEN RankOf[s[j - 1]] ELSE "None")

SquareAt(s, i) == SomeCoord(FileOf[s[i]], RankOf[s[i + 1]])

IsSquareAt(s, i) ==
    i + 1 <= Len(s) /\ s[i] \in FileLetters /\ s[i + 1] \in RankDigits

\* The scan has left phase Origin (or the loop).
PastOrigin ==
    \/ pc \in {"build", "done"} /\ scan.phase # "None"
    \/ pc = "loop" /\ scan.phase \notin {"CheckCastle", "PieceType", "Origin"}

\* Index in mov_str of current_char (one past the end when it is None).
ReadPos ==
    IF scan.current_char = "None" THEN Len(scan.mov_str) + 1
    ELSE Len(scan.mov_str) - Len(scan.move_iter)

(* C3: a single complete square followed by end of input or by '=', '+'   *)
(* or '#', optionally preceded by one piece letter: the square is stored   *)
(* as the destination, the origin stays unset, the piece is the letter (or *)
(* Pawn when none is given), castle is unset and capture is false.         *)
C3_SingleSquareIsDestination ==
    LET k == SkipPiece(input, 1)
        piece == IF k = 2 THEN PieceOf[input[1]] ELSE "None"
    IN  (/\ IsSquareAt(input, k)
         /\ (Len(input) = k + 1 \/ input[k + 2] \in {"=", "+", "#"})
         /\ PastOrigin)
        => /\ scan.new_move.destination = SquareAt(input, k)
           /\ scan.new_move.origin = NoCoord
           /\ scan.new_move.moving_piece = piece
           /\ scan.new_move.castle = "None"
           /\ ~scan.new_move.is_capture
           /\ (Returned /\ Len(input) = k + 1) =>
                 result = Ok([ChessMoveBuilder_new EXCEPT
                                 !.destination = SquareAt(input, k),
                                 !.moving_piece =
                                     IF k = 2 THEN piece ELSE "Pawn"])
           /\ (Returned /\ result.ok) =>
                 /\ result.move.destination = SquareAt(input, k)
                 /\ result.move.origin = NoCoord
                 /\ result.move.moving_piece = (IF k = 2 THEN piece ELSE "Pawn")
                 /\ result.move.castle = "None"
                 /\ ~result.move.is_capture

C3_Witness ==
    /\ Returned
    /\ input = <<"N", "e", "4", "+">>
    /\ result.ok
    /\ result.move.destination = SomeCoord("E", "R4")
    /\ result.move.origin = NoCoord

(* C4: piece letter, origin hint (file, rank, or file then rank) and a     *)
(* complete destination square give that piece, an origin equal to the     *)
(* hint with the missing half unset, and that destination; castle and      *)
(* promotion are unset and capture, check and checkmate are false.         *)
C4_OriginHint ==
    LET h == SkipRank(input, SkipFile(input, 2))
    IN  (/\ Returned
         /\ SkipPiece(input, 1) = 2
         /\ h > 2
         /\ IsSquareAt(input, h)
         /\ Len(input) = h + 1)
        => result = Ok([ChessMoveBuilder_new EXCEPT
                           !.moving_piece = PieceOf[input[1]],
                           !.origin = HintAt(input, 2, h),
                           !.destination = SquareAt(input, h)])

C4_Witness ==
    /\ Returned
    /\ input = <<"N", "e", "4", "d", "5">>
    /\ result.ok
    /\ result.move.origin = SomeCoord("E", "R4")
    /\ result.move.destination = SomeCoord("D", "R5")

\* The index of the first character of s, from i on, that is not '-' (the
\* castle phase steps over a leading run of '-').
RECURSIVE SkipDashes(_, _)
SkipDashes(s, i) ==
    IF i <= Len(s) /\ s[i] = "-" THEN SkipDashes(s, i + 1) ELSE i

\* The position of the capture marker: after the optional piece letter
\* and the optional origin hint.
CapturePos(s) == SkipRank(s, SkipFile(s, SkipPiece(s, SkipDashes(s, 1))))

\* Phase Destination has just been entered: nothing collected yet.
AtDestinationEntry ==
    /\ pc = "loop"
    /\ scan.phase = "Destination"
    /\ scan.board_file = "None"
    /\ scan.board_rank = "None"

(* C5: an 'x' after the optional piece letter and optional origin hint and *)
(* before the destination square is consumed and sets capture=true, and    *)
(* the origin and destination are those written around it; a character     *)
(* other than 'x' at that position is not consumed and capture stays       *)
(* false.                                                                  *)
C5_CaptureMarker ==
    LET k == SkipPiece(input, 1)
        q == CapturePos(input)
        m == scan.mov_str
        p == CapturePos(m)
    IN  /\ (/\ Returned
            /\ SkipDashes(input, 1) = 1
            /\ q <= Len(input)
            /\ input[q] = "x"
            /\ IsSquareAt(input, q + 1)
            /\ Len(input) = q + 2)
           => /\ scan.new_move =
                    [ChessMoveBuilder_new EXCEPT
                        !.moving_piece =
                            IF k = 2 THEN PieceOf[input[1]] ELSE "None",
                        !.origin = HintAt(input, k, q),
                        !.destination = SquareAt(input, q + 1),
                        !.is_capture = TRUE]
              /\ (k = 2 \/ input[k] \in FileLetters) =>
                    result = Ok([scan.new_move EXCEPT !.moving_piece =
                                    IF k = 2 THEN PieceOf[input[1]] ELSE "Pawn"])
        /\ AtDestinationEntry
           => /\ p <= Len(m)
              /\ IF m[p] = "x"
                 THEN ReadPos = p + 1 /\ scan.new_move.is_capture
                 ELSE /\ ReadPos = p
                      /\ scan.current_char = m[p]
                      /\ ~scan.new_move.is_capture

C5_Witness ==
    /\ Returned
    /\ input = <<"e", "x", "d", "5">>
    /\ result.ok
    /\ result.move.is_capture
    /\ result.move.origin = SomeCoord("E", "None")
    /\ result.move.destination = SomeCoord("D", "R5")

\* s[1..e] is a move body that ends with its destination square: an
\* optional piece letter, an optional origin hint, an optional 'x' and the
\* square at s[e-1..e].
IsBody(s, e) ==
    /\ e >= 2
    /\ e <= Len(s)
    /\ IsSquareAt(s, e - 1)
    /\ LET a == SkipPiece(s, 1)
       IN  \/ SkipX(s, a) = e - 1
           \/ SkipX(s, SkipFile(s, a)) = e - 1
           \/ SkipX(s, SkipRank(s, a)) = e - 1
           \/ SkipX(s, SkipRank(s, SkipFile(s, a))) = e - 1

(* C6: after the destination square, '=' followed by a piece letter of     *)
(* N, B, R, Q, K sets the promotion to that piece (with or without a       *)
(* capture before it and a check or mate marker after it); '=' followed by *)
(* end of input or by any other character, 'P' included, gives             *)
(* InvalidMove; with no '=' the promotion stays unset.                     *)
C6_Promotion ==
    (Returned /\ is_ascii(input)) =>
      /\ \A e \in 2..Len(input) :
           (IsBody(input, e) /\ e < Len(input) /\ input[e + 1] = "=") =>
              IF e + 2 <= Len(input) /\ input[e + 2] \in PieceLetters
              THEN /\ scan.new_move.promotion = PieceOf[input[e + 2]]
                   /\ result.ok => result.move.promotion = PieceOf[input[e + 2]]
                   /\ (\/ Len(input) = e + 2
                       \/ Len(input) = e + 3 /\ input[e + 3] \in {"+", "#"})
                      => /\ result.err # "InvalidMove"
                         /\ input[1] \in PieceLetters \cup FileLetters
                              => result.ok
              ELSE result = Err("InvalidMove")
      /\ (\A i \in 1..Len(input) : input[i] # "=") =>
              /\ scan.new_move.promotion = "None"
              /\ result.move.promotion = "None"

C6_Witness ==
    /\ Returned
    /\ input = <<"e", "x", "d", "5", "=", "Q", "#">>
    /\ result.ok
    /\ result.move.promotion = "Queen"
    /\ result.move.is_capture
    /\ result.move.is_check_mate

\* s is a well-formed move text without check marker: a castle token, or
\* a move body with an optional promotion.
IsMoveText(s) ==
    \/ s = <<"O", "-", "O">>
    \/ s = <<"O", "-", "O", "-", "O">>
    \/ IsBody(s, Len(s))
    \/ /\ IsBody(s, Len(s) - 2)
       /\ s[Len(s) - 1] = "="
       /\ s[Len(s)] \in PieceLetters

(* C7: for every otherwise valid move string followed by one '+'           *)
(* (respectively one '#'), the parser returns the move with check=true and *)
(* checkmate=false (respectively checkmate=true and check=false); this     *)
(* holds for plain moves, captures, promotions and for the castle strings  *)
(* "O-O" and "O-O-O" followed by the marker.                               *)
C7_CheckMarker ==
    (/\ Returned
     /\ Len(input) >= 2
     /\ input[Len(input)] \in {"+", "#"}
     /\ IsMoveText(SubSeq(input, 1, Len(input) - 1))
     /\ ChessMove_from(SubSeq(input, 1, Len(input) - 1)).ok)
    => result = Ok([ChessMove_from(SubSeq(input, 1, Len(input) - 1)).move
                       EXCEPT !.is_check = (input[Len(input)] = "+"),
                              !.is_check_mate = (input[Len(input)] = "#")])

\* The part of C7 about moves that are not castles.
C7_CheckMarkerNoCastle == CastleRunCount(input) = 0 => C7_CheckMarker

\* The first character of s that is neither a leading piece letter nor part
\* of the coordinates and capture marker that follow it.
CoordEnd(s) ==
    SkipRank(s, SkipFile(s, SkipX(s, SkipRank(s, SkipFile(s, SkipPiece(s, 1))))))

\* Characters that stand for no piece, file or rank and are no marker:
\* 'P', lowercase letters outside a-h, uppercase file letters, digits
\* outside 1-8.
BadChars == {"P", "k", "F", "0"}

(* C8: a move string that has, in the piece or coordinate position, a      *)
(* letter that is not one of N, B, R, Q, K ('P' and lowercase letters      *)
(* outside a-h included), an uppercase file letter, or a digit outside 1-8 *)
(* is rejected with InvalidMove.                                           *)
C8_BadCharacter ==
    (/\ Returned
     /\ is_ascii(input)
     /\ CoordEnd(input) <= Len(input)
     /\ input[CoordEnd(input)] \in BadChars)
    => result = Err("InvalidMove")

C8_Witness ==
    /\ Returned
    /\ input = <<"N", "e", "x", "k", "5">>
    /\ result = Err("InvalidMove")

---------------------------------------------------------------------------
(* Claims about ChessMoveBuilder::build, reached from a builder (Build)    *)
(* and from a move string (Finish).                                        *)

\* build has returned for the builder filled by the caller.
Built == pc = "built"

\* ChessMove::from has left its loop by break and returned
\* new_move.build().
ParsedByBuild == Returned /\ scan.ctl = "break"

\* Capture with the moving piece Pawn, given or defaulted.
PawnCapture(b) == b.is_capture /\ b.moving_piece \in {"None", "Pawn"}

HasOriginFile(b) == b.origin.some /\ b.origin.file # "None"

CheckAndMate(b) == b.is_check /\ b.is_check_mate

CastleConflict(b) ==
    b.castle # "None" /\ (b.is_capture \/ b.promotion # "None")

PartialDestination(b) == b.destination.some /\ ~is_complete(b.destination)

NoDestinationNoCastle(b) == ~b.destination.some /\ b.castle = "None"

\* The statement of C11 for one builder b and the result r of build.
PawnCaptureRule(b, r) ==
    PawnCapture(b) =>
        IF HasOriginFile(b) THEN r.ok ELSE r = Err("MissingMoveData")

\* Move strings of the shape of "xd5" and "5xd5": an optional rank, 'x' and
\* a square.
IsPawnCaptureNoFile(s) ==
    LET i == SkipRank(s, 1)
    IN  /\ Len(s) = i + 2
        /\ s[i] = "x"
        /\ IsSquareAt(s, i + 1)

(* C11 as stated: a pawn capture (capture=true and moving piece Pawn,      *)
(* given or defaulted) whose origin is absent or has no file is rejected   *)
(* with MissingMoveData, both by build and by ChessMove::from ("xd5",      *)
(* "5xd5"); a pawn capture whose origin has a file is accepted.  Violated: *)
(* the checks that build makes before the pawn rule decide first.          *)
C11_PawnCaptureAlways ==
    /\ Built => PawnCaptureRule(builder, built)
    /\ ParsedByBuild => PawnCaptureRule(scan.new_move, result)

(* C11 amended: for a builder that passes the checks build makes before    *)
(* the pawn rule (not check and checkmate together, no castle, a           *)
(* destination with file and rank), a pawn capture whose origin is absent  *)
(* or has no file is rejected with MissingMoveData and one whose origin    *)
(* has a file is accepted, by build and by ChessMove::from; "xd5" and      *)
(* "5xd5" give MissingMoveData.                                            *)
C11_PawnCapture ==
    /\ (Built /\ ~CheckAndMate(builder) /\ builder.castle = "None"
          /\ is_complete(builder.destination))
         => PawnCaptureRule(builder, built)
    /\ (ParsedByBuild /\ ~CheckAndMate(scan.new_move)
          /\ scan.new_move.castle = "None"
          /\ is_complete(scan.new_move.destination))
         => PawnCaptureRule(scan.new_move, result)
    /\ (Returned /\ IsPawnCaptureNoFile(input))
         => result = Err("MissingMoveData")

C11_Witness ==
    /\ Returned
    /\ input = <<"4", "x", "d", "5">>
    /\ scan.new_move.origin = SomeCoord("None", "R4")
    /\ result = Err("MissingMoveData")

(* C12: build returns ImpossibleMove whenever check and checkmate are both *)
(* set, and whenever a castle is set together with capture=true or with a  *)
(* promotion piece, whatever the other fields hold.                        *)
C12_ImpossibleMove ==
    (Built /\ (CheckAndMate(builder) \/ CastleConflict(builder)))
        => built = Err("ImpossibleMove")

C12_Witness ==
    /\ Built
    /\ builder.castle = "QueensideCastle"
    /\ builder.promotion = "Queen"
    /\ ~builder.is_capture
    /\ ~CheckAndMate(builder)
    /\ built = Err("ImpossibleMove")

\* A destination is set and holds only a file or only a rank.
OnlyFileOrRank(b) ==
    /\ b.destination.some
    /\ (b.destination.file = "None") # (b.destination.rank = "None")

\* The statement of C13 for one builder b and the result r of build.
MissingRule(b, r) ==
    /\ NoDestinationNoCastle(b) => r = Err("MissingMoveData")
    /\ OnlyFileOrRank(b) => r = Err("MissingDestination")

\* Move strings of the shapes named by C13: a lone piece letter ("N"); a
\* lone file or rank ("e", "4"); piece, file, 'x', file ("Nbxd").
IsLonePiece(s) == Len(s) = 1 /\ s[1] \in PieceLetters

IsLoneFileOrRank(s) == Len(s) = 1 /\ s[1] \in FileLetters \cup RankDigits

IsCaptureOntoFile(s) ==
    /\ Len(s) = 4
    /\ s[1] \in PieceLetters
    /\ s[2] \in FileLetters
    /\ s[3] = "x"
    /\ s[4] \in FileLetters

(* C13 as stated: build returns MissingMoveData when neither a destination *)
(* nor a castle is set, and MissingDestination when a destination is set   *)
(* with only a file or only a rank.  Violated: the two ImpossibleMove      *)
(* checks of build come first.                                             *)
C13_MissingAlways ==
    /\ Built => MissingRule(builder, built)
    /\ ParsedByBuild => MissingRule(scan.new_move, result)

(* C13 amended: unless check and checkmate are both set, or a castle is    *)
(* set together with capture or a promotion, build returns MissingMoveData *)
(* when neither a destination nor a castle is set and MissingDestination   *)
(* when a destination is set with only a file or only a rank; through      *)
(* ChessMove::from, "N" gives MissingMoveData and "e", "4", "Nbxd" give    *)
(* MissingDestination.                                                     *)
C13_Missing ==
    /\ (Built /\ ~CheckAndMate(builder) /\ ~CastleConflict(builder))
         => MissingRule(builder, built)
    /\ ParsedByBuild => MissingRule(scan.new_move, result)
    /\ (Returned /\ IsLonePiece(input)) => result = Err("MissingMoveData")
    /\ (Returned /\ (IsLoneFileOrRank(input) \/ IsCaptureOntoFile(input)))
         => result = Err("MissingDestination")

C13_Witness ==
    /\ Returned
    /\ input = <<"N", "e", "x", "d">>
    /\ scan.new_move.destination = SomeCoord("D", "None")
    /\ result = Err("MissingDestination")

\* The three properties C14 states of a returned move m.
WellFormedMove(m) ==
    /\ m.moving_piece \in ChessPiece
    /\ ~(m.is_check /\ m.is_check_mate)
    /\ \/ m.castle \in ChessCastle
       \/ /\ m.destination.some
          /\ m.destination.file \in ChessFile
          /\ m.destination.rank \in ChessRank

(* C14: every move returned by build, and so by ChessMove::from, has a     *)
(* moving piece set (Pawn when none was given), never has check and        *)
(* checkmate both true, and has either a castle direction or a destination *)
(* with both file and rank.                                                *)
C14_BuiltMoveInvariant ==
    /\ (Built /\ built.ok) =>
          /\ WellFormedMove(built.move)
          /\ builder.moving_piece = "None" => built.move.moving_piece = "Pawn"
    /\ (Returned /\ result.ok) =>
          /\ WellFormedMove(result.move)
          /\ scan.new_move.moving_piece = "None"
               => result.move.moving_piece = "Pawn"

C14_Witness ==
    /\ Returned
    /\ input = <<"e", "4">>
    /\ scan.new_move.moving_piece = "None"
    /\ result.ok
    /\ result.move.moving_piece = "Pawn"
    /\ result.move.destination = SomeCoord("E", "R4")

(* C15: every move returned by build that has a castle direction set has   *)
(* no origin, no destination, no promotion and capture=false.  Violated:   *)
(* build accepts a castle together with an origin or a destination.        *)
C15_CastleExclusive ==
    (Built /\ built.ok /\ built.move.castle # "None") =>
        /\ ~built.move.origin.some
        /\ ~built.move.destination.some
        /\ built.move.promotion = "None"
        /\ ~built.move.is_capture

\* The part of C15 that build enforces: no promotion and no capture.
C15_CastleNoCaptureNoPromotion ==
    (Built /\ built.ok /\ built.move.castle # "None") =>
        /\ built.move.promotion = "None"
        /\ ~built.move.is_capture

---------------------------------------------------------------------------
(* The formatter, checked against the text C16 prescribes.                 *)

\* The letter of a piece, file or rank, read off the vocabulary of the
\* claims; a pawn (possible as a promotion piece) has the letter 'P'.
LetterOfPiece(p) ==
    IF p = "Pawn" THEN "P" ELSE CHOOSE c \in PieceLetters : PieceOf[c] = p

LetterOfFile(f) == CHOOSE c \in FileLetters : FileOf[c] = f

DigitOfRank(r) == CHOOSE c \in RankDigits : RankOf[c] = r

Opt(cond, text) == IF cond THEN text ELSE <<>>

\* The text C16 prescribes for a built move m.
PrescribedText(m) ==
    LET marker == IF m.is_check_mate THEN <<"#">>
                  ELSE IF m.is_check THEN <<"+">> ELSE <<>>
        token  == IF m.castle = "KingsideCastle"
                  THEN <<"O", "-", "O">> ELSE <<"O", "-", "O", "-", "O">>
        pawn   == m.moving_piece = "Pawn"
    IN  IF m.castle # "None" THEN token \o marker
        ELSE Opt(~pawn, <<LetterOfPiece(m.moving_piece)>>)
          \o Opt(m.origin.file # "None", <<LetterOfFile(m.origin.file)>>)
          \o Opt(m.origin.rank # "None" /\ ~pawn,
                 <<DigitOfRank(m.origin.rank)>>)
          \o Opt(m.is_capture, <<"x">>)
          \o <<LetterOfFile(m.destination.file),
               DigitOfRank(m.destination.rank)>>
          \o Opt(m.promotion # "None", <<"=", LetterOfPiece(m.promotion)>>)
          \o marker

\* to_string has been applied to the built move.
Displayed == built.ok /\ pc \notin {"builder", "built"}

(* C16: for every built move to_string never fails and equals: for a       *)
(* castle the token "O-O" or "O-O-O" with no piece letter, coordinate, 'x' *)
(* or promotion text; otherwise the piece letter (nothing for a pawn), the *)
(* origin file if present, the origin rank if present and the piece is not *)
(* a pawn, 'x' if capture, the destination file and rank, '=' and the      *)
(* promotion letter if a promotion is set; in both cases followed by '#'   *)
(* if checkmate, else '+' if check.                                        *)
C16_ToString ==
    /\ (Built /\ built.ok) => ENABLED Display
    /\ Displayed => input = PrescribedText(built.move)

C16_Witness ==
    /\ Displayed
    /\ built.move.moving_piece = "Pawn"
    /\ built.move.origin = SomeCoord("E", "R4")
    /\ built.move.is_capture
    /\ built.move.promotion = "Queen"
    /\ built.move.is_check_mate
    /\ input = <<"e", "x", "d", "5", "=", "Q", "#">>

---------------------------------------------------------------------------
(* Claims about MoveList.                                                  *)

\* A pair holds both halves; a pair holds none.
IsCompletePair(p) == p.white_move.some /\ p.black_move.some

IsEmptyPair(p) == ~p.white_move.some /\ ~p.black_move.some

WhiteOnly(m) == [white_move |-> SomeMove(m), black_move |-> NoMove]

\* The half-moves of a list in the order white, black, pair by pair.
RECURSIVE HalfMoveSeq(_)
HalfMoveSeq(ms) ==
    IF ms = <<>> THEN <<>>
    ELSE (IF Head(ms).white_move.some THEN <<Head(ms).white_move.move>>
          ELSE <<>>)
      \o (IF Head(ms).black_move.some THEN <<Head(ms).black_move.move>>
          ELSE <<>>)
      \o HalfMoveSeq(Tail(ms))

\* The statement of C17 for a push of m that takes the list ms to ms2.
PushPost(ms, m, ms2) ==
    IF ms = <<>> \/ IsCompletePair(ms[Len(ms)])
    THEN ms2 = Append(ms, WhiteOnly(m))
    ELSE /\ Len(ms2) = Len(ms)
         /\ ms2[Len(ms)].black_move = SomeMove(m)
         /\ ms2[Len(ms)].white_move = ms[Len(ms)].white_move
         /\ \A k \in 1..(Len(ms) - 1) : ms2[k] = ms[k]

(* C17: push_move on an empty list or on a list whose last pair is         *)
(* complete appends one new pair holding the move as its white half and no *)
(* black half; otherwise it stores the move as the black half of the last  *)
(* pair; in both cases all earlier pairs and the white half of the last    *)
(* pair are left unchanged.  Violated on a list whose last pair holds no   *)
(* half-move, which pop_move leaves behind.                                *)
C17_PushMove ==
    [][op' = "push_move" => PushPost(moves, new_move'.move, moves')]_vars

\* The part of C17 that holds: a push on a list whose last pair is not
\* empty.
C17_PushMoveOnNonEmptyPair ==
    [][(op' = "push_move" /\ (moves = <<>> \/ ~IsEmptyPair(moves[Len(moves)])))
         => PushPost(moves, new_move'.move, moves')]_vars

\* The statement of C18 for a pop that takes the list ms to ms2 and
\* returns ret.
PopPost(ms, ret, ms2) ==
    LET halves == HalfMoveSeq(ms)
    IN  IF halves = <<>> THEN ~ret.some
        ELSE /\ ret = SomeMove(halves[Len(halves)])
             /\ HalfMoveSeq(ms2) = SubSeq(halves, 1, Len(halves) - 1)
             /\ \A k \in 1..Len(ms2) : ~IsEmptyPair(ms2[k])

(* C18: pop_move removes and returns the most recently pushed half-move    *)
(* that has not been popped yet (the black half of the last pair if        *)
(* present, else its white half), and when this removal leaves the pair    *)
(* with no half-move the pair itself is removed from the list in the same  *)
(* call, so that after popping every pushed move the list contains no      *)
(* pairs.  Violated: the emptied pair stays in the list.                   *)
C18_PopMove ==
    [][op' = "pop_move" => PopPost(moves, ret_move', moves')]_vars

\* The part of C18 that holds: the move returned and the half-moves left.
C18_PopMoveReturnsLast ==
    [][op' = "pop_move" =>
         LET halves == HalfMoveSeq(moves)
         IN  IF halves = <<>> THEN ~ret_move'.some /\ moves' = <<>>
             ELSE /\ ret_move' = SomeMove(halves[Len(halves)])
                  /\ HalfMoveSeq(moves')
                       = SubSeq(halves, 1, Len(halves) - 1)]_vars

\* get_turn as C19 states it: by the number of half-moves stored.
TurnByParity(ms) ==
    IF HalfMoves(ms) % 2 = 0 THEN "WhiteToMove" ELSE "BlackToMove"

(* C19: after any sequence of push_move and pop_move from a new list,      *)
(* get_turn returns WhiteToMove when the number of half-moves stored is    *)
(* even (zero included) and BlackToMove when it is odd; a push always      *)
(* switches the turn and a pop that returns a move always switches it      *)
(* back.                                                                   *)
C19_Turn ==
    /\ [](get_turn(moves) = TurnByParity(moves))
    /\ [][/\ op' = "push_move" => get_turn(moves') # get_turn(moves)
          /\ (op' = "pop_move" /\ ret_move'.some)
               => get_turn(moves') # get_turn(moves)]_vars

C19_Witness ==
    /\ op = "pop_move"
    /\ ret_move.some
    /\ Len(moves) = 2
    /\ IsEmptyPair(moves[2])
    /\ get_turn(moves) = "WhiteToMove"

(* C20: in every state reachable by push_move and pop_move from a new      *)
(* MoveList, every pair except the last one holds both a white and a black *)
(* half-move; only the last pair may be incomplete.                        *)
C20_OnlyLastIncomplete ==
    \A k \in 1..(Len(moves) - 1) : IsCompletePair(moves[k])

C20_Witness ==
    /\ op = "push_move"
    /\ Len(moves) = 2
    /\ IsCompletePair(moves[1])
    /\ moves[2].white_move.some
    /\ ~moves[2].black_move.some

(* C21: pop_move on a list that stores no half-move (never pushed to, or   *)
(* every pushed move already popped) returns none, terminates, and leaves  *)
(* the list with no stored half-move and the turn at WhiteToMove; a        *)
(* following push_move behaves as on a new list.                           *)
C21_PopOnEmpty ==
    [][(op' = "pop_move" /\ HalfMoves(moves) = 0) =>
         /\ ~ret_move'.some
         /\ HalfMoves(moves') = 0
         /\ get_turn(moves') = "WhiteToMove"
         /\ \A m \in ListMoves :
              push_move(moves', m) = push_move(MoveList_new, m)]_vars

C21_Witness ==
    /\ op = "pop_move"
    /\ ~ret_move.some
    /\ HalfMoves(moves) = 0
    /\ get_turn(moves) = "WhiteToMove"

---------------------------------------------------------------------------
(* Claims about the course of the scan loop of ChessMove::from.            *)

\* The phases in the order of their declaration.
PhaseIndex ==
    "CheckCastle" :> 1 @@ "PieceType" :> 2 @@ "Origin" :> 3 @@ "Capture" :> 4
    @@ "Destination" :> 5 @@ "Promotion" :> 6 @@ "Checks" :> 7 @@ "Done" :> 8

\* The number of loop iterations from the locals s to the exit of the
\* loop, counted up to fuel + 1.
RECURSIVE StepsToExit(_, _)
StepsToExit(s, fuel) ==
    IF s.ctl # "loop" THEN 0
    ELSE IF fuel = 0 THEN 1
    ELSE 1 + StepsToExit(LoopStep(s), fuel - 1)

\* The bound C27 names: the length of the scanned string plus the number
\* of phases.
IterationBound(mov_str) == Len(mov_str) + Cardinality(MoveBuildPhase)

IterationsBounded ==
    pc \in {"loop", "build"} \/ (Returned /\ scan.phase # "None") =>
        StepsToExit(InitScan(scan.mov_str), IterationBound(scan.mov_str))
          <= IterationBound(scan.mov_str)

ReturnsMoveOrError ==
    Returned =>
        \/ result.ok /\ result.err = "None"
        \/ ~result.ok /\ result.err \in ChessMoveBuildError

(* C27: ChessMove::from is total and terminating: for every finite ASCII   *)
(* input string the scan loop ends after a number of iterations bounded by *)
(* the string length plus the number of phases, and it returns either a    *)
(* move or one of the five errors; it never loops forever.                 *)
C27_Terminates ==
    /\ [](IterationsBounded /\ ReturnsMoveOrError)
    /\ <>Returned

C27_Witness ==
    /\ Returned
    /\ input = <<"N", "e", "4", "x", "d", "5", "=", "Q", "+">>
    /\ result.ok
    /\ StepsToExit(InitScan(scan.mov_str), IterationBound(scan.mov_str)) > Len(input)

\* Index in mov_str of current_char for the locals s (one past the end
\* when it is None).
ReadPosOf(s) ==
    IF s.current_char = "None" THEN Len(s.mov_str) + 1
    ELSE Len(s.mov_str) - Len(s.move_iter)

\* One loop iteration takes the locals s to t.
PhaseForward(s, t) == PhaseIndex[s.phase] <= PhaseIndex[t.phase]

ReadForward(s, t) == ReadPosOf(s) <= ReadPosOf(t)

Progress(s, t) ==
    \/ ReadPosOf(t) = ReadPosOf(s) + 1
    \/ PhaseIndex[s.phase] < PhaseIndex[t.phase]

(* C28 as stated: during one call of ChessMove::from the phase only moves  *)
(* forward in the order CheckCastle, PieceType, Origin, Capture,           *)
(* Destination, Promotion, Checks, Done (phases may be skipped, none is    *)
(* entered again after it was left), and the read position in the string   *)
(* never moves backward; each step either consumes one character or        *)
(* advances the phase.  Violated: the iteration that leaves the loop in    *)
(* phase Done, or at the end of the input, does neither.                   *)
C28_EachStepProgress ==
    [][pc = "loop" =>
         /\ PhaseForward(scan, scan')
         /\ ReadForward(scan, scan')
         /\ Progress(scan, scan')]_vars

(* C28 amended: the phase only moves forward in the order CheckCastle,     *)
(* PieceType, Origin, Capture, Destination, Promotion, Checks, Done, and   *)
(* the read position never moves backward, in every iteration; every       *)
(* iteration after which the loop goes on either consumes one character or *)
(* advances the phase, while the iteration that leaves the loop (by break *)
(* or with an error) need not do either.                                   *)
C28_PhasesForward ==
    [][pc = "loop" =>
         /\ PhaseForward(scan, scan')
         /\ ReadForward(scan, scan')
         /\ pc' = "loop" => Progress(scan, scan')]_vars

C28_Witness ==
    /\ pc = "loop"
    /\ input = <<"e", "x", "d", "5">>
    /\ scan.phase = "Destination"
    /\ ReadPosOf(scan) = 3
    /\ scan.new_move.is_capture

---------------------------------------------------------------------------
(* The coordinate collected in phase Origin and in phase Destination.      *)

CoordPhases == {"Origin", "Destination"}

One(cond) == IF cond THEN 1 ELSE 0

\* This iteration is the last one of phase p: the phase changes, or the
\* loop is left.
LeavesPhase(p) ==
    /\ pc = "loop"
    /\ scan.phase = p
    /\ pc' # "loop" \/ scan'.phase # p

\* Position in mov_str of the first character the phase now in progress
\* has read: the read position less the characters it holds.
CollectStart ==
    ReadPosOf(scan) - One(scan.board_file # "None")
                    - One(scan.board_rank # "None")

\* The coordinate phase p has stored in the move m: phase Origin stores an
\* origin, or a destination when a promotion, a check marker or the end of
\* the input follows.
Collected(m, p) ==
    IF p = "Origin" /\ m.origin.some THEN m.origin ELSE m.destination

IsFileAt(s, i) == i <= Len(s) /\ s[i] \in FileLetters

IsRankAt(s, i) == i <= Len(s) /\ s[i] \in RankDigits

\* The coordinate written at s[i..]: up to one file and up to one rank
\* character in either order, and the position after it.
EitherOrderCoord(s, i) ==
    IF IsFileAt(s, i) /\ IsRankAt(s, i + 1)
    THEN SomeCoord(FileOf[s[i]], RankOf[s[i + 1]])
    ELSE IF IsRankAt(s, i) /\ IsFileAt(s, i + 1)
    THEN SomeCoord(FileOf[s[i + 1]], RankOf[s[i]])
    ELSE IF IsFileAt(s, i) THEN SomeCoord(FileOf[s[i]], "None")
    ELSE IF IsRankAt(s, i) THEN SomeCoord("None", RankOf[s[i]])
    ELSE NoCoord

EitherOrderEnd(s, i) ==
    IF IsFileAt(s, i) THEN SkipRank(s, i + 1)
    ELSE IF IsRankAt(s, i) THEN SkipFile(s, i + 1)
    ELSE i

\* The coordinate written at s[i..] when a rank character ends it: a file
\* then a rank, a file alone or a rank alone, and the position after it.
FileThenRankCoord(s, i) ==
    IF IsFileAt(s, i)
    THEN SomeCoord(FileOf[s[i]],
                   IF IsRankAt(s, i + 1) THEN RankOf[s[i + 1]] ELSE "None")
    ELSE IF IsRankAt(s, i) THEN SomeCoord("None", RankOf[s[i]])
    ELSE NoCoord

FileThenRankEnd(s, i) ==
    IF IsFileAt(s, i) THEN SkipRank(s, i + 1) ELSE SkipRank(s, i)

(* C29 as stated: in the origin and destination phases the coordinate      *)
(* collection takes up to one file character and up to one rank character  *)
(* in either order: a rank character followed by a file character ("5b")   *)
(* is collected into one coordinate with both file and rank set, just as a *)
(* file followed by a rank is, and the collection stops only at the first  *)
(* character that is neither, or at end of input.  Violated: a rank        *)
(* character ends the collection.                                          *)
C29_EitherOrder ==
    [][\A p \in CoordPhases :
          LeavesPhase(p) =>
              /\ Collected(scan'.new_move, p)
                    = EitherOrderCoord(scan.mov_str, CollectStart)
              /\ ReadPosOf(scan')
                    = EitherOrderEnd(scan.mov_str, CollectStart)]_vars

(* C29 amended: in the origin and destination phases the collection takes  *)
(* at most one file character and then at most one rank character into one *)
(* coordinate; a rank character ends the collection at once, so a rank     *)
(* followed by a file ("5b") gives a coordinate with the rank only and the *)
(* file character is read by the next phase; a lone file is ended by the   *)
(* first character that is no rank, or by end of input.                    *)
C29_FileThenRank ==
    [][\A p \in CoordPhases :
          LeavesPhase(p) =>
              /\ Collected(scan'.new_move, p)
                    = FileThenRankCoord(scan.mov_str, CollectStart)
              /\ ReadPosOf(scan')
                    = FileThenRankEnd(scan.mov_str, CollectStart)]_vars

\* Both phases have collected a rank and stopped: "4x5b" has given the
\* origin rank 4 and the destination rank 5, and 'b' is left to phase
\* Promotion.
C29_Witness ==
    /\ pc = "loop"
    /\ scan.phase = "Promotion"
    /\ scan.mov_str = <<"4", "x", "5", "b">>
    /\ scan.new_move.origin = SomeCoord("None", "R4")
    /\ scan.new_move.destination = SomeCoord("None", "R5")
    /\ scan.current_char = "b"

---------------------------------------------------------------------------
(* Every character accounted for.                                          *)

\* The length of the leading run of 'O' and '-' characters of s.
RECURSIVE CastleRunLen(_)
CastleRunLen(s) ==
    IF s = <<>> \/ Head(s) \notin {"O", "-"} THEN 0
    ELSE 1 + CastleRunLen(Tail(s))

\* The number of characters that the fields of a parsed move m stand for;
\* the castle token counts with the length it has in s.
FieldChars(s, m) ==
    One(m.is_check \/ m.is_check_mate)
    + (IF m.castle # "None" THEN CastleRunLen(s)
       ELSE One(m.moving_piece # "Pawn")
            + One(m.origin.file # "None") + One(m.origin.rank # "None")
            + One(m.is_capture)
            + One(m.destination.file # "None")
            + One(m.destination.rank # "None")
            + (IF m.promotion # "None" THEN 2 ELSE 0))

(* C30: ChessMove::from has no partial success: whenever it returns a      *)
(* move, every character of the trimmed input was interpreted into a field *)
(* of that move (castle token, piece letter, file, rank, capture,          *)
(* promotion, check or checkmate); no character is skipped, ignored or     *)
(* left unread, so a string with characters after the check/mate marker,   *)
(* after a castle token, or with '-' before a non-castle move is rejected. *)
(* Violated: such strings are accepted.                                    *)
C30_NoPartialSuccess ==
    (Returned /\ result.ok) =>
        Len(trim(input)) = FieldChars(trim(input), result.move)

\* The three kinds of strings C30 names, each accepted by the code.
C30_TrailingAfterMarkerRejected ==
    (Returned /\ input = <<"e", "4", "+", "P">>) => ~result.ok

C30_TrailingAfterCastleRejected ==
    (Returned /\ input = <<"O", "-", "O", "e">>) => ~result.ok

C30_LeadingDashRejected ==
    (Returned /\ input = <<"-", "e", "4">>) => ~result.ok

---------------------------------------------------------------------------
(* The character codes of the vocabulary.                                  *)

Decoded(x) == x \notin {"Pending", "None"}

(* C26: the character codes round-trip: for every file A-H, every rank 1-8 *)
(* and every piece Knight, Bishop, Rook, Queen, King, decoding the         *)
(* character produced by encoding gives the same value back; decoding is   *)
(* defined for exactly the characters a-h (files), 1-8 (ranks) and N, B,   *)
(* R, Q, K (pieces) and returns no match for every other character, 'P'    *)
(* and the uppercase file letters included; no character decodes both as a *)
(* file and as a rank or as a piece.                                       *)
C26_VocabularyRoundTrip ==
    /\ (codec.kind = "piece" /\ codec.value # "Pawn" /\ codec.piece # "Pending")
         => codec.piece = codec.value
    /\ (codec.kind = "file" /\ codec.file # "Pending")
         => codec.file = codec.value
    /\ (codec.kind = "rank" /\ codec.rank # "Pending")
         => codec.rank = codec.value
    /\ codec.piece # "Pending"
         => (codec.piece # "None" <=> codec.char \in PieceLetters)
    /\ codec.file # "Pending"
         => (codec.file # "None" <=> codec.char \in FileLetters)
    /\ codec.rank # "Pending"
         => (codec.rank # "None" <=> codec.char \in RankDigits)
    /\ ~(Decoded(codec.file) /\ Decoded(codec.rank))
    /\ ~(Decoded(codec.file) /\ Decoded(codec.piece))

C26_Witness ==
    /\ codec.kind = "file"
    /\ codec.value = "B"
    /\ codec.char = "b"
    /\ codec.file = "B"
    /\ codec.piece = "None"
    /\ codec.rank = "None"


---------------------------------------------------------------------------
(* The rendered game, read back as text.                                   *)

\* The lines of a text: the pieces between line breaks.
Lines(s) ==
    LET starts == {p \in 1..(Len(s) + 1) : p = 1 \/ s[p - 1] = "\n"}
        nth(k) == CHOOSE p \in starts :
                      Cardinality({q \in starts : q < p}) = k - 1
        stop(p) == CHOOSE q \in (p - 1)..Len(s) :
                      /\ \A r \in p..q : s[r] # "\n"
                      /\ (q = Len(s) \/ s[q + 1] = "\n")
    IN  [k \in 1..Cardinality(starts) |-> SubSeq(s, nth(k), stop(nth(k)))]

StartsWith(s, prefix) ==
    Len(s) >= Len(prefix) /\ SubSeq(s, 1, Len(prefix)) = prefix

EndsWith(s, suffix) ==
    Len(s) >= Len(suffix)
      /\ SubSeq(s, Len(s) - Len(suffix) + 1, Len(s)) = suffix

\* The text between the opening [Name " and the closing "] of a tag line.
TagValue(line, tag_name) == SubSeq(line, Len(tag_name) + 4, Len(line) - 2)

\* A line of the form [Name "Value"].
IsTagLine(line, tag_name) ==
    /\ StartsWith(line, <<"[">> \o tag_name \o <<" ", "\"">>)
    /\ EndsWith(line, <<"\"", "]">>)
    /\ Len(line) >= Len(tag_name) + 5

TagNames == <<TagEvent, TagSite, TagDate, TagRound, TagWhite, TagBlack, TagResult>>

ResultTokens ==
    {<<"1", "-", "0">>, <<"0", "-", "1">>,
     <<"1", "/", "2", "-", "1", "/", "2">>, <<"*">>}

\* The tokens the move text of a list is made of: for each pair its number
\* followed by a period, the white half-move and the black half-move.
RECURSIVE PairTokens(_, _)
PairTokens(ms, i) ==
    IF i > Len(ms) THEN <<>>
    ELSE <<Decimal(i) \o <<".">>>>
           \o (IF ms[i].white_move.some
               THEN <<PrescribedText(ms[i].white_move.move)>> ELSE <<>>)
           \o (IF ms[i].black_move.some
               THEN <<PrescribedText(ms[i].black_move.move)>> ELSE <<>>)
           \o PairTokens(ms, i + 1)

IsRendered == rendered # NotRendered

\* The rendered text after the seven tag lines and the empty line.
RECURSIVE JoinLines(_, _)
JoinLines(lines, i) ==
    IF i > Len(lines) THEN <<>>
    ELSE lines[i] \o (IF i < Len(lines) THEN <<"\n">> ELSE <<>>)
           \o JoinLines(lines, i + 1)

MoveSection == JoinLines(Lines(rendered), 9)

\* The text of the result tag of the game.
ResultText == TagValue(Lines(rendered)[7], TagResult)

\* The move section without the characters of the result at its end.
MoveText == SubSeq(MoveSection, 1, Len(MoveSection) - Len(ResultText))

\* The seven tag lines and the empty line that follows them.
TagLinesRight ==
    LET lines == Lines(rendered)
    IN  /\ Len(lines) >= 9
        /\ \A i \in 1..7 : IsTagLine(lines[i], TagNames[i])
        /\ lines[8] = <<>>
        /\ \A i \in 9..Len(lines) : ~StartsWith(lines[i], <<"[">>)
        /\ ResultText \in ResultTokens

(* C22: a rendered game is exactly seven tag lines, Event, Site, Date,     *)
(* Round, White, Black, Result in this order, each of the form             *)
(* [Name "Value"], then one empty line, then the move list as the tokens   *)
(* "<pair number>.", white half-move, black half-move for each pair in     *)
(* order, and it ends with the result token, one of 1-0, 0-1, 1/2-1/2, *,  *)
(* the same as the value of the Result tag.                                *)
C22_RenderedGame ==
    IsRendered =>
        /\ TagLinesRight
        /\ split_whitespace(MoveSection)
             = PairTokens(moves, 1) \o <<ResultText>>

\* C22, the part that holds: the tag lines and the empty line are as
\* stated and the text ends with the characters of the Result tag's value.
C22_TagSection ==
    IsRendered =>
        /\ TagLinesRight
        /\ EndsWith(MoveSection, ResultText)
        /\ ResultText = PgnResult_to_string(tags.result)

C22_TagSectionWitness ==
    /\ IsRendered
    /\ tags.round = RoundKnown(<<3, 1>>)
    /\ tags.date.year = <<987>>
    /\ tags.result = "Draw"
    /\ tags.white = <<"B", "o", "b", " ", "F">>

(* C23: wrapping works on whole tokens: in the rendered move text every    *)
(* pair number and every half-move appears exactly once and in order,      *)
(* separated by a space or a line break; no token is dropped, joined to    *)
(* another or broken.                                                      *)
C23_WholeTokens ==
    IsRendered => split_whitespace(MoveText) = PairTokens(moves, 1)

(* C24: with short tokens no line of the rendered move list, and no line   *)
(* of the rendered game once the result token is added, is longer than 80  *)
(* characters.                                                             *)
C24_LineLength ==
    IsRendered =>
        /\ \A i \in 9..Len(Lines(rendered)) : Len(Lines(rendered)[i]) <= LineWidth
        /\ \A i \in 1..Len(Lines(MoveList_to_string(moves))) :
              Len(Lines(MoveList_to_string(moves))[i]) <= LineWidth

C24_Witness ==
    /\ IsRendered
    /\ Len(Lines(rendered)) >= 11
    /\ \E i \in 9..Len(Lines(rendered)) : Len(Lines(rendered)[i]) >= LineWidth - 2

\* The result was put on a line of its own.
ResultOnNewLine == EndsWith(MoveText, <<"\n">>)

\* The last line of the move text, before the result is added.
LastMoveLine ==
    LastLine(IF ResultOnNewLine THEN SubSeq(MoveText, 1, Len(MoveText) - 1)
             ELSE MoveText)

(* C25: the result token is appended to the last line of the move text and *)
(* is placed on a new line of its own exactly when appending it would make *)
(* that line longer than 80 columns.                                       *)
C25_ResultPlacement ==
    IsRendered =>
        (ResultOnNewLine <=> Len(LastMoveLine) + Len(ResultText) > LineWidth)

\* C25 as the code decides it: the length added to the last line is that
\* of the whole Result tag pair, and the line breaks from 80 on.
C25_ResultPlacementByTagLength ==
    IsRendered =>
        (ResultOnNewLine <=>
            Len(LastMoveLine) + Len(Lines(rendered)[7]) >= LineWidth)

C25_ByTagLengthWitness ==
    /\ IsRendered
    /\ ResultOnNewLine
    /\ Len(LastMoveLine) + Len(ResultText) < LineWidth

---------------------------------------------------------------------------
(* Claims about the errors ChessMove::from can return.                     *)

\* The errors of the parser other than ImpossibleMove.
ParserErrors ==
    {"MissingMoveData", "InvalidInputFormat", "InvalidMove",
     "MissingDestination"}

\* A check marker directly followed by a checkmate marker in the text.
HasBothMarkers(s) ==
    \E i \in 1..(Len(s) - 1) : s[i] = "+" /\ s[i + 1] = "#"

(* C32: ChessMove::from never returns ImpossibleMove: at no point of the   *)
(* scan are check and checkmate set together, or a castle set together     *)
(* with a capture or a promotion, and every error returned is one of       *)
(* MissingMoveData, InvalidInputFormat, InvalidMove, MissingDestination.   *)
C32_NeverImpossibleMove ==
    /\ ~CheckAndMate(scan.new_move)
    /\ ~CastleConflict(scan.new_move)
    /\ (Returned /\ ~result.ok) => result.err \in ParserErrors

C32_Witness ==
    /\ Returned
    /\ HasBothMarkers(input)
    /\ scan.phase = "Done"
    /\ scan.new_move.is_check
    /\ result.ok

\* The builder asks for a pawn capture and names no origin file.
PawnCaptureNoFile(b) == PawnCapture(b) /\ ~HasOriginFile(b)

(* C36: when a builder state breaks several rules at once, build reports   *)
(* them in a fixed order: ImpossibleMove (check with checkmate, castle     *)
(* with capture or promotion) comes before MissingDestination and          *)
(* MissingMoveData for the destination, and those come before              *)
(* MissingMoveData for a pawn capture without origin file; a castle with a *)
(* partial destination gives MissingDestination.                           *)
C36_BuildErrorOrder ==
    Built =>
        /\ (CheckAndMate(builder) \/ CastleConflict(builder))
              => (~built.ok /\ built.err = "ImpossibleMove")
        /\ (~CheckAndMate(builder) /\ ~CastleConflict(builder)
              /\ PartialDestination(builder))
              => (~built.ok /\ built.err = "MissingDestination")
        /\ (~CheckAndMate(builder) /\ ~CastleConflict(builder)
              /\ NoDestinationNoCastle(builder))
              => (~built.ok /\ built.err = "MissingMoveData")
        /\ (~CheckAndMate(builder) /\ ~CastleConflict(builder)
              /\ ~PartialDestination(builder)
              /\ ~NoDestinationNoCastle(builder)
              /\ PawnCaptureNoFile(builder))
              => (~built.ok /\ built.err = "MissingMoveData")

C36_Witness ==
    /\ Built
    /\ CheckAndMate(builder)
    /\ PartialDestination(builder)
    /\ PawnCaptureNoFile(builder)
    /\ built.err = "ImpossibleMove"

C36_CastlePartialWitness ==
    /\ Built
    /\ builder.castle # "None"
    /\ PartialDestination(builder)
    /\ PawnCaptureNoFile(builder) = FALSE
    /\ built.err = "MissingDestination"

---------------------------------------------------------------------------
(* Claims about a PgnMove used on its own.                                 *)

\* The number of half-moves a pair stores.
Stored(p) == One(p.white_move.some) + One(p.black_move.some)

\* A black half-move is present only if a white half-move is present.
BlackOnlyAfterWhite(p) == p.black_move.some => p.white_move.some

\* get_state by the number of stored half-moves.
StateByCount(p) ==
    CASE Stored(p) = 0 -> "WhiteToMove"
      [] Stored(p) = 1 -> "BlackToMove"
      [] Stored(p) = 2 -> "MoveComplete"

\* add_move fills white before black; on a complete pair it changes
\* nothing and returns false.
AddPost ==
    pair_op'.op = "add_move" =>
        CASE Stored(pgn_move) = 0 ->
                /\ pair_op'.added
                /\ pgn_move' = [pgn_move EXCEPT !.white_move = pair_op'.new_move]
          [] Stored(pgn_move) = 1 ->
                /\ pair_op'.added
                /\ pgn_move' = [pgn_move EXCEPT !.black_move = pair_op'.new_move]
          [] Stored(pgn_move) = 2 ->
                /\ ~pair_op'.added
                /\ pgn_move' = pgn_move

\* remove_move takes black before white; on an empty pair it changes
\* nothing and returns none.
RemovePost ==
    pair_op'.op = "remove_move" =>
        CASE Stored(pgn_move) = 2 ->
                /\ pair_op'.temp = pgn_move.black_move
                /\ pgn_move' = [pgn_move EXCEPT !.black_move = NoMove]
          [] Stored(pgn_move) = 1 ->
                /\ pair_op'.temp = pgn_move.white_move
                /\ pgn_move' = PgnMove_new
          [] Stored(pgn_move) = 0 ->
                /\ pair_op'.temp = NoMove
                /\ pgn_move' = pgn_move

(* C35: in every state reachable by add_move and remove_move from a new    *)
(* PgnMove a black half-move is present only if a white half-move is       *)
(* present; add_move fills white before black and returns false, changing  *)
(* nothing, on a complete pair; remove_move takes black before white and   *)
(* returns none, changing nothing, on an empty pair; get_state is          *)
(* WhiteToMove, BlackToMove or MoveComplete for zero, one or two stored    *)
(* half-moves.                                                             *)
C35_PgnMove ==
    /\ [](BlackOnlyAfterWhite(pgn_move)
            /\ get_state(pgn_move) = StateByCount(pgn_move))
    /\ [][AddPost /\ RemovePost]_vars

C35_Witness ==
    /\ pair_op.op = "add_move"
    /\ ~pair_op.added
    /\ Stored(pgn_move) = 2
    /\ pgn_move.white_move # pgn_move.black_move
    /\ pair_op.new_move # pgn_move.black_move

C35_RemoveOnEmptyWitness ==
    /\ pair_op.op = "remove_move"
    /\ pair_op.temp = NoMove
    /\ pgn_move = PgnMove_new

---------------------------------------------------------------------------
(* The MoveList as a stack of half-moves.                                  *)

(* C34: MoveList never loses or overwrites a move: push_move is never      *)
(* applied to a pair that is already complete, each push_move raises the   *)
(* number of stored half-moves by exactly one, each pop_move that returns  *)
(* a move lowers it by exactly one, and the moves returned by successive   *)
(* pops are the pushed moves in reverse order of pushing.                  *)
C34_StackOfHalfMoves ==
    [][/\ op' = "push_move" =>
            /\ HalfMoves(moves') = HalfMoves(moves) + 1
            /\ HalfMoveSeq(moves')
                 = Append(HalfMoveSeq(moves), new_move'.move)
       /\ (op' = "pop_move" /\ ret_move'.some) =>
            /\ HalfMoves(moves') = HalfMoves(moves) - 1
            /\ HalfMoveSeq(moves) = Append(HalfMoveSeq(moves'), ret_move'.move)
       /\ (op' = "pop_move" /\ ~ret_move'.some) =>
            /\ HalfMoves(moves) = 0
            /\ HalfMoves(moves') = 0]_vars

C34_Witness ==
    /\ op = "push_move"
    /\ Len(moves) = 2
    /\ IsCompletePair(moves[1])
    /\ moves[2] = WhiteOnly(new_move.move)
    /\ moves[1].white_move # moves[1].black_move
    /\ new_move # moves[1].black_move

---------------------------------------------------------------------------
(* The rendered move list after moves were undone.                         *)

\* The tokens of the rendered move text.
RenderedTokens ==
    {split_whitespace(MoveText)[i] : i \in 1..Len(split_whitespace(MoveText))}

(* C37: after any sequence of push_move and pop_move the rendered move     *)
(* list shows a pair number "N." only for a pair that holds at least a     *)
(* white move: undoing the only move of a pair leaves no pair number       *)
(* without a move in the output, and a list with no stored half-move       *)
(* renders as the empty string.                                            *)
C37_NoBareNumber ==
    IsRendered =>
        /\ \A k \in 1..Len(moves) :
              ~moves[k].white_move.some
                 => (Decimal(k) \o <<".">>) \notin RenderedTokens
        /\ HalfMoves(moves) = 0 => MoveText = <<>>

---------------------------------------------------------------------------
(* White space around and inside the move text.                            *)

\* The positions of the characters of s that are not white space.
InkPositions(s) == {i \in 1..Len(s) : s[i] \notin WhiteSpace}

\* The text from the first to the last character that is not white space.
Stripped(s) ==
    IF InkPositions(s) = {} THEN <<>>
    ELSE SubSeq(s,
                CHOOSE i \in InkPositions(s) : \A j \in InkPositions(s) : i <= j,
                CHOOSE i \in InkPositions(s) : \A j \in InkPositions(s) : j <= i)

HasInnerWhiteSpace(s) ==
    \E i \in 1..Len(Stripped(s)) : Stripped(s)[i] \in WhiteSpace

(* C38: ChessMove::from ignores leading and trailing ASCII white space:    *)
(* for every ASCII string whose trimmed form is not empty, from(s) equals  *)
(* from(trim(s)); a non-empty string of only white space gives InvalidMove *)
(* (not MissingMoveData), and white space inside the move text gives       *)
(* InvalidMove.                                                            *)
C38_WhiteSpace ==
    (Returned /\ is_ascii(input) /\ input # <<>>) =>
        /\ Stripped(input) # <<>> => result = ChessMove_from(Stripped(input))
        /\ Stripped(input) = <<>> => result = Err("InvalidMove")
        /\ HasInnerWhiteSpace(input) => result = Err("InvalidMove")

\* C38 without its last part: white space around the move text is
\* ignored, and a string of only white space gives InvalidMove.
C38_OuterWhiteSpace ==
    (Returned /\ is_ascii(input) /\ input # <<>>) =>
        /\ Stripped(input) # <<>> => result = ChessMove_from(Stripped(input))
        /\ Stripped(input) = <<>> => result = Err("InvalidMove")

C38_OuterWitness ==
    /\ Returned
    /\ Len(input) = Len(Stripped(input)) + 3
    /\ input[1] = "\t"
    /\ input[Len(input)] = "\n"
    /\ result.ok
    /\ result.move.promotion = "Queen"

---------------------------------------------------------------------------
(* Rendering after parsing.                                                *)

\* t, the text of the move the call returned, is accepted, and parsing it
\* and rendering the outcome gives t again.
NormalForm ==
    LET t == to_string(result.move)
        r == ChessMove_from(t)
    IN  /\ r.ok
        /\ to_string(r.move) = t
        /\ ChessMove_from(to_string(r.move)) = r

(* C33: rendering after parsing is a stable normal form: for every string  *)
(* s that ChessMove::from accepts, the string t = from(s).to_string() is   *)
(* also accepted, from(t) equals from(from(t).to_string()), and            *)
(* from(t).to_string() equals t.                                           *)
C33_NormalForm == (Returned /\ result.ok) => NormalForm

\* C33 for the accepted strings that are not a castle with a check or
\* checkmate marker.
C33_NormalFormWithoutCastleMarker ==
    (Returned /\ result.ok
       /\ ~(result.move.castle # "None"
              /\ (result.move.is_check \/ result.move.is_check_mate)))
        => NormalForm

C33_WithoutCastleMarkerWitness ==
    /\ Returned
    /\ result.ok
    /\ result.move.origin.some
    /\ result.move.origin.rank # "None"
    /\ result.move.moving_piece = "Pawn"
    /\ to_string(result.move) # Stripped(input)

---------------------------------------------------------------------------
(* Round texts.                                                            *)

\* One or more decimal digits.
IsUnsignedDecimal(s) == s # <<>> /\ \A i \in 1..Len(s) : s[i] \in DigitChars

\* The digits of a number without its leading zeros.
Canonical(s) ==
    LET ink == {i \in 1..Len(s) : s[i] # "0"}
    IN  IF ink = {} THEN <<"0">>
        ELSE SubSeq(s, CHOOSE i \in ink : \A j \in ink : i <= j, Len(s))

\* The parts of the trimmed round text.
RoundParts == split(Stripped(round_in), ".")

RoundReturned == round_ret.kind # "Pending"

(* C31: PgnRound::from returns Known with the list of numbers when the     *)
(* trimmed text is one or more unsigned decimal numbers separated by '.',  *)
(* and returns a numeric parse error for every other text, the empty       *)
(* string and a text with an empty part such as "1..2" included.           *)
C31_RoundFrom ==
    RoundReturned =>
        IF \A k \in 1..Len(RoundParts) : IsUnsignedDecimal(RoundParts[k])
        THEN /\ round_ret.kind = "Ok"
             /\ round_ret.rounds
                  = [k \in 1..Len(RoundParts) |-> Canonical(RoundParts[k])]
        ELSE round_ret.kind = "Err"

\* A part the u32 parser accepts: an optional '+', then one or more digits
\* whose value is at most u32::MAX.
IsU32Text(s) ==
    LET digits == IF s # <<>> /\ s[1] = "+" THEN Tail(s) ELSE s
    IN  /\ IsUnsignedDecimal(digits)
        /\ ~ExceedsU32(Canonical(digits))

U32Value(s) == Canonical(IF s[1] = "+" THEN Tail(s) ELSE s)

\* C31 with the numbers as the code reads them: each part is an optional
\* '+' followed by digits, with a value of at most 4294967295.
C31_RoundFromU32 ==
    RoundReturned =>
        IF \A k \in 1..Len(RoundParts) : IsU32Text(RoundParts[k])
        THEN /\ round_ret.kind = "Ok"
             /\ round_ret.rounds
                  = [k \in 1..Len(RoundParts) |-> U32Value(RoundParts[k])]
        ELSE round_ret.kind = "Err"

C31_Witness ==
    /\ RoundReturned
    /\ round_ret.kind = "Ok"
    /\ Len(round_ret.rounds) = 2
    /\ round_ret.rounds[1] = <<"3">>
    /\ round_ret.rounds[2] = U32Max
    /\ Len(round_in) > Len(Stripped(round_in))
    /\ Len(RoundParts[2]) > Len(U32Max)

---------------------------------------------------------------------------
(* The classification of a command line.                                   *)

ParseReturned == parsed.kind # "Pending"

\* The commands with an alias equal to the first word.
Matching == {k \in 1..Len(registered_cmds) :
                \E i \in 1..Len(registered_cmds[k].cmd_aliases) :
                    registered_cmds[k].cmd_aliases[i] = vec_input[1]}

\* The first registered command with a matching alias.
FirstMatch ==
    registered_cmds[CHOOSE k \in Matching : \A j \in Matching : k <= j]

GivenArgs == Tail(vec_input)

IsError(e) == parsed.kind = "Err" /\ parsed.err = e

\* The first n given arguments were taken as they are, or as numbers.
TookFirst(n) ==
    /\ parsed.kind = "Ok"
    /\ parsed.cmd_id = FirstMatch.cmd_id
    /\ \/ /\ FirstMatch.arg_type = "ArgType_String"
          /\ parsed.args.some
          /\ parsed.args.args_string = SubSeq(GivenArgs, 1, n)
          /\ parsed.args.args_u32 = <<>>
       \/ /\ FirstMatch.arg_type = "None"
          /\ n = 0
          /\ ~parsed.args.some
       \/ /\ FirstMatch.arg_type = "ArgType_u32"
          /\ parsed.args.some
          /\ parsed.args.args_u32 = [k \in 1..n |-> U32Value(GivenArgs[k])]
          /\ parsed.args.args_string = <<>>

\* The outcome when fewer than num_args arguments follow.
TooFewOutcome ==
    IF Len(GivenArgs) >= 1 THEN IsError("IncorrectNumberOfArguments")
    ELSE IF FirstMatch.default_args.some
    THEN /\ parsed.kind = "Ok"
         /\ parsed.cmd_id = FirstMatch.cmd_id
         /\ parsed.args = FirstMatch.default_args
    ELSE IsError("IncorrectNumberOfArguments")

(* C39: parse_vec classifies its input as follows: empty input gives       *)
(* NoCommandRecieved; a first word matching no alias of any registered     *)
(* command gives CommandNotFound; for the first registered command with a  *)
(* matching alias, when at least num_args arguments follow, the first      *)
(* num_args are taken (InvalidArgumentType if a u32 argument does not      *)
(* parse) and further arguments are ignored; when fewer follow, one or     *)
(* more given arguments give IncorrectNumberOfArguments, and no arguments  *)
(* give the registered default arguments, or IncorrectNumberOfArguments    *)
(* when no defaults are registered.                                        *)
C39_ParseVec ==
    ParseReturned =>
        IF vec_input = <<>> THEN IsError("NoCommandRecieved")
        ELSE IF Matching = {} THEN IsError("CommandNotFound")
        ELSE IF Len(GivenArgs) >= FirstMatch.num_args
        THEN IF /\ FirstMatch.arg_type = "ArgType_u32"
                /\ \E k \in 1..FirstMatch.num_args : ~IsU32Text(GivenArgs[k])
             THEN IsError("InvalidArgumentType")
             ELSE TookFirst(FirstMatch.num_args)
        ELSE TooFewOutcome

\* C39 with the command without argument type told apart: it returns the
\* command with no arguments, whatever num_args is.
C39_ParseVecTyped ==
    ParseReturned =>
        IF vec_input = <<>> THEN IsError("NoCommandRecieved")
        ELSE IF Matching = {} THEN IsError("CommandNotFound")
        ELSE IF Len(GivenArgs) >= FirstMatch.num_args
        THEN IF FirstMatch.arg_type = "None"
             THEN /\ parsed.kind = "Ok"
                  /\ parsed.cmd_id = FirstMatch.cmd_id
                  /\ parsed.arg_type = "None"
                  /\ ~parsed.args.some
             ELSE IF /\ FirstMatch.arg_type = "ArgType_u32"
                     /\ \E k \in 1..FirstMatch.num_args :
                           ~IsU32Text(GivenArgs[k])
             THEN IsError("InvalidArgumentType")
             ELSE TookFirst(FirstMatch.num_args)
        ELSE TooFewOutcome

C39_Witness ==
    /\ ParseReturned
    /\ vec_input # <<>>
    /\ Len(registered_cmds) = 2
    /\ Cardinality(Matching) = 2
    /\ FirstMatch.cmd_id = "Move"
    /\ Len(GivenArgs) = 3
    /\ parsed.kind = "Ok"
    /\ parsed.args.args_string = <<GivenArgs[1], GivenArgs[2]>>
    /\ GivenArgs[3] # GivenArgs[2]

=============================================================================
